---- MODULE Spec2Model ----
(***************************************************************************)
(* A model of the polishing core of dorado (src/dorado/polish): window     *)
(* creation, sample surgery, trimming, inference, stitching and variant    *)
(* decoding.  Indices are zero-based as in the C++ source; a C++ vector v  *)
(* is a TLA+ sequence whose element v[i] is written At(v, i).              *)
(***************************************************************************)
EXTENDS Integers, Sequences, FiniteSets, TLC

VARIABLES
    pc,             \* position of the modelled driver
    samples,        \* trim/stitch: the samples of one draft, sorted by start
    trims,          \* trim/stitch: the TrimInfo vector returned by trim_samples
    stitched,       \* trim/stitch: ConsensusResult of stitch_sequence, column by column
    written,        \* trim/stitch: the records written to the consensus file
    surg,           \* surgery: inputs and results of the surgery passes of one BAM region
    win,            \* windows: arguments and result of create_windows
    vc,             \* variants: the sample, its prediction and the decoded variants
    inf             \* inference: state of process_samples_in_parallel; inf.inferred[k]
                    \* lists the (worker, batch size) of every forward() that covered sample k

vars == <<pc, samples, trims, stitched, written, surg, win, vc, inf>>

(***************************************************************************)
(* Bounds of the model.                                                    *)
(***************************************************************************)
DraftLen == 6       \* length of the draft sequence
MaxSamples == 2     \* number of samples of the draft handed to trim_samples
InsSite == 2        \* the draft coordinate after which reads may carry an insertion

(***************************************************************************)
(* Generic helpers.                                                        *)
(***************************************************************************)
At(v, i) == v[i + 1]

Size(v) == Len(v)

Min(a, b) == IF a < b THEN a ELSE b

Max(a, b) == IF a > b THEN a ELSE b

\* v[from, to) as a vector (std::vector range constructor, Tensor::slice)
Slice(v, from, to) == SubSeq(v, from + 1, to)

RECURSIVE Flatten(_)
Flatten(vs) == IF vs = <<>> THEN <<>> ELSE Head(vs) \o Flatten(Tail(vs))

Range(v) == { v[k] : k \in 1..Len(v) }

\* largest and smallest element of a non-empty set of integers
Max0(S) == CHOOSE x \in S : \A y \in S : y <= x

Min0(S) == CHOOSE x \in S : \A y \in S : x <= y

\* lexicographic order of std::pair<int64_t, int64_t>
PosLT(a, b) == (a[1] < b[1]) \/ (a[1] = b[1] /\ a[2] < b[2])

PosLE(a, b) == PosLT(a, b) \/ a = b

Bases == <<"A", "C", "G", "T">>

\* the draft sequence, ACGTAC...
Draft == [c \in 1..DraftLen |-> Bases[((c - 1) % 4) + 1]]

(***************************************************************************)
(* Sample (sample.h).  features and depth have one row per column; a row   *)
(* is represented by the column it was computed for.                       *)
(***************************************************************************)
MkSample(major, minor, seq_id, region_id) ==
    [positions_major |-> major, positions_minor |-> minor,
     features |-> [k \in 1..Len(major) |-> <<"f", major[k], minor[k]>>],
     depth |-> [k \in 1..Len(major) |-> <<"d", major[k], minor[k]>>],
     seq_id |-> seq_id, region_id |-> region_id]

EmptySample == MkSample(<<>>, <<>>, -1, -1)

SampleStart(s) ==
    IF s.positions_major = <<>> THEN -1 ELSE At(s.positions_major, 0)

SampleEnd(s) ==
    IF s.positions_major = <<>> THEN -1
    ELSE At(s.positions_major, Size(s.positions_major) - 1) + 1

get_position(s, idx) ==
    IF idx < 0 \/ idx >= Size(s.positions_major) THEN <<-1, -1>>
    ELSE <<At(s.positions_major, idx), At(s.positions_minor, idx)>>

get_last_position(s) == get_position(s, Size(s.positions_major) - 1)

NumColumns(s) == Size(s.positions_major)

(***************************************************************************)
(* relative_position (trim.cpp).                                           *)
(***************************************************************************)
ordered_abuts(s1, s2) ==
    LET e == get_last_position(s1)
        b == get_position(s2, 0)
    IN  (b[1] = e[1] + 1 /\ b[2] = 0) \/ (b[1] = e[1] /\ b[2] = e[2] + 1)

ordered_contained(s1, s2) ==
    /\ PosLE(get_position(s1, 0), get_position(s2, 0))
    /\ PosLE(get_last_position(s2), get_last_position(s1))

\* faulty variant of ordered_overlaps: a strict comparison with the last
\* position of s1
ordered_overlaps_strict(s1, s2) ==
    LET e == get_last_position(s1)
        b == get_position(s2, 0)
    IN  (b[1] < e[1]) \/ (b[1] = e[1] /\ b[2] < e[2])

ordered_overlaps(s1, s2) ==
    LET e == get_last_position(s1)
        b == get_position(s2, 0)
    IN  (b[1] < e[1]) \/ (b[1] = e[1] /\ b[2] < e[2] + 1)

ordered_gapped(s1, s2) ==
    LET e == get_last_position(s1)
        b == get_position(s2, 0)
    IN  \/ b[1] > e[1] + 1
        \/ (b[1] > e[1] /\ b[2] > 0)
        \/ (b[1] = e[1] /\ b[2] > e[2] + 1)

\* std::tuple(s1.get_position(0), -size(s1)) <= std::tuple(s2.get_position(0), -size(s2))
IsOrdered(s1, s2) ==
    LET p1 == get_position(s1, 0)
        p2 == get_position(s2, 0)
    IN  PosLT(p1, p2) \/ (p1 = p2 /\ (0 - NumColumns(s1)) <= (0 - NumColumns(s2)))

relative_position(s1, s2) ==
    IF s1.seq_id # s2.seq_id THEN "DIFFERENT_REF_NAME"
    ELSE LET is_ordered == IsOrdered(s1, s2)
             a == IF is_ordered THEN s1 ELSE s2
             b == IF is_ordered THEN s2 ELSE s1
         IN  IF ordered_contained(a, b)
               THEN (IF is_ordered THEN "S2_WITHIN_S1" ELSE "S1_WITHIN_S2")
             ELSE IF ordered_abuts(a, b)
               THEN (IF is_ordered THEN "FORWARD_ABUTTED" ELSE "REVERSE_ABUTTED")
             ELSE IF ordered_overlaps(a, b)
               THEN (IF is_ordered THEN "FORWARD_OVERLAP" ELSE "REVERSE_OVERLAP")
             ELSE IF ordered_gapped(a, b)
               THEN (IF is_ordered THEN "FORWARD_GAPPED" ELSE "REVERSE_GAPPED")
             ELSE "UNKNOWN"

(***************************************************************************)
(* overlap_indices (trim.cpp).  The result is the tuple the function       *)
(* returns, or thrown = TRUE when it throws std::runtime_error.            *)
(***************************************************************************)
UNIQ_MAJ == 3

RECURSIVE find_left_from(_, _, _)
find_left_from(s, target, idx) ==
    IF idx >= NumColumns(s) THEN idx
    ELSE IF PosLT(target, get_position(s, idx)) THEN idx - 1
    ELSE find_left_from(s, target, idx + 1)

find_left(s, target) == find_left_from(s, target, 0)

RECURSIVE find_right_from(_, _, _)
find_right_from(s, target, idx) ==
    IF idx >= NumColumns(s) THEN idx
    ELSE IF PosLE(target, get_position(s, idx)) THEN idx + 1
    ELSE find_right_from(s, target, idx + 1)

find_right(s, target) == find_right_from(s, target, 0)

compare_subvectors(a, a_start, a_end, b, b_start, b_end) ==
    /\ (a_end - a_start) = (b_end - b_start)
    /\ \A k \in 0..(a_end - a_start - 1) : At(a, a_start + k) = At(b, b_start + k)

count_unique(a, start, end) ==
    IF a = <<>> \/ end <= start \/ start >= Size(a) \/ end > Size(a) THEN 0
    ELSE 1 + Cardinality({k \in (start + 1)..(end - 1) : At(a, k) # At(a, k - 1)})

RECURSIVE streak_from(_, _, _)
streak_from(a, start, i) ==
    IF i >= Size(a) \/ At(a, i) # At(a, start) THEN 0
    ELSE 1 + streak_from(a, start, i + 1)

streak_count(a, start) ==
    IF a = <<>> \/ start >= Size(a) THEN 0 ELSE 1 + streak_from(a, start, start + 1)

\* std::lower_bound on a sorted vector: the first index whose value is >= x
lower_bound(a, x) == Cardinality({k \in 0..(Size(a) - 1) : At(a, k) < x})

\* the body of `while (end_1_ind == -1)`, from the given offset on
RECURSIVE heuristic_scan(_, _, _, _, _, _)
heuristic_scan(s1, s2, start, end, mid, offset) ==
    IF (mid + offset > end) /\ (mid - offset < start)
      THEN [end1 |-> -1, start2 |-> 0]
    ELSE LET left(test) == lower_bound(s1.positions_major, mid + test)
             right(test) == lower_bound(s2.positions_major, mid + test)
             found(test) ==
                 /\ left(test) # Size(s1.positions_major)
                 /\ right(test) # Size(s2.positions_major)
                 /\ streak_count(s1.positions_major, left(test))
                        = streak_count(s2.positions_major, right(test))
         IN  IF found(offset)
               THEN [end1 |-> left(offset), start2 |-> right(offset)]
             ELSE IF found(0 - offset)
               THEN [end1 |-> left(0 - offset), start2 |-> right(0 - offset)]
             ELSE heuristic_scan(s1, s2, start, end, mid, offset + 1)

\* faulty variant of heuristic_cut: the -1 coordinates of "no junction found"
\* are returned
heuristic_cut_unset(s1, s2, ovl_start_ind1, ovl_end_ind2) == [end1 |-> -1, start2 |-> -1]

\* the `if (heuristic)` block: end_1_ind and start_2_ind are reset to the
\* sample ends before the scan, whose loop runs only while end_1_ind == -1
heuristic_cut(s1, s2, ovl_start_ind1, ovl_end_ind2) ==
    LET end_1_ind == NumColumns(s1)
        start_2_ind == 0
        unique_s1 == count_unique(s1.positions_major, ovl_start_ind1,
                                  Size(s1.positions_minor))
        unique_s2 == count_unique(s2.positions_major, 0, ovl_end_ind2)
        start == At(s1.positions_major, ovl_start_ind1)
        end == At(s1.positions_major, Size(s1.positions_major) - 1)
        mid == start + ((end - start) \div 2)
    IN  IF unique_s1 > UNIQ_MAJ /\ unique_s2 > UNIQ_MAJ /\ end_1_ind = -1
          THEN heuristic_scan(s1, s2, start, end, mid, 1)
        ELSE [end1 |-> end_1_ind, start2 |-> start_2_ind]

\* the `if (!heuristic)` block: the midpoint of the overlap
midpoint_cut(ovl_start_ind1, ovl_end_ind2) ==
    LET overlap_len == ovl_end_ind2
        pad_1 == overlap_len \div 2
        pad_2 == overlap_len - pad_1
    IN  [end1 |-> ovl_start_ind1 + pad_1, start2 |-> ovl_end_ind2 - pad_2]

overlap_indices(s1, s2) ==
    LET rel == relative_position(s1, s2)
        ovl_start_ind1 == find_left(s1, get_position(s2, 0))
        ovl_end_ind2 == find_right(s2, get_last_position(s1))
        same == compare_subvectors(s1.positions_minor, ovl_start_ind1,
                                   Size(s1.positions_minor),
                                   s2.positions_minor, 0, ovl_end_ind2)
        m == midpoint_cut(ovl_start_ind1, ovl_end_ind2)
        mismatch == ((m.end1 - ovl_start_ind1) + (ovl_end_ind2 - m.start2)) # ovl_end_ind2
        h == heuristic_cut(s1, s2, ovl_start_ind1, ovl_end_ind2)
    IN  IF rel = "FORWARD_ABUTTED"
          THEN [thrown |-> FALSE, end1 |-> NumColumns(s1), start2 |-> 0,
                heuristic |-> FALSE]
        ELSE IF rel # "FORWARD_OVERLAP"
          THEN [thrown |-> TRUE, end1 |-> -1, start2 |-> -1, heuristic |-> FALSE]
        ELSE IF ovl_start_ind1 < 0 \/ ovl_end_ind2 < 0
          THEN [thrown |-> TRUE, end1 |-> -1, start2 |-> -1, heuristic |-> FALSE]
        ELSE IF same /\ ~mismatch
          THEN [thrown |-> FALSE, end1 |-> m.end1, start2 |-> m.start2,
                heuristic |-> FALSE]
        ELSE [thrown |-> FALSE, end1 |-> h.end1, start2 |-> h.start2,
              heuristic |-> TRUE]

(***************************************************************************)
(* trim_samples (trim.cpp).  thrown = TRUE when it throws.                 *)
(***************************************************************************)
TrimInfoDefault == [start |-> 0, end |-> -1, is_last_in_contig |-> FALSE]

\* one iteration of `for (size_t i = 1; ...)` and the iterations after it
RECURSIVE trim_loop(_, _, _, _)
trim_loop(smp, result, idx_s1, i) ==
    IF i >= Size(smp) THEN [thrown |-> FALSE, result |-> result]
    ELSE
      LET s1 == At(smp, idx_s1)
          s2 == At(smp, i)
          rel == relative_position(s1, s2)
          r0 == [result EXCEPT ![i + 1].start = 0, ![i + 1].end = NumColumns(s2)]
          o == overlap_indices(s1, s2)
      IN  IF rel = "S2_WITHIN_S1"
            THEN trim_loop(smp, r0, idx_s1, i + 1)
          ELSE IF rel = "FORWARD_GAPPED"
            THEN trim_loop(smp, [r0 EXCEPT ![i + 1].is_last_in_contig = TRUE], i, i + 1)
          ELSE IF rel = "DIFFERENT_REF_NAME"
            THEN trim_loop(smp, r0, i, i + 1)
          ELSE IF o.thrown
            THEN [thrown |-> TRUE, result |-> r0]
          ELSE trim_loop(smp, [r0 EXCEPT ![idx_s1 + 1].end = o.end1,
                                         ![i + 1].start = o.start2], i, i + 1)

trim_samples(smp) ==
    IF smp = <<>> THEN [thrown |-> FALSE, result |-> <<>>]
    ELSE
      LET n == Size(smp)
          init == [[k \in 1..n |-> TrimInfoDefault]
                      EXCEPT ![1].start = 0, ![1].end = NumColumns(At(smp, 0))]
          r == trim_loop(smp, init, 0, 1)
      IN  IF r.thrown THEN r
          ELSE [thrown |-> FALSE,
                result |-> [r.result EXCEPT ![n].end = NumColumns(At(smp, n - 1)),
                                            ![n].is_last_in_contig = TRUE]]

(***************************************************************************)
(* Decoded consensus of one sample, as process_samples stores it in        *)
(* results[sample_id].  A character of ConsensusResult::seq carries, next  *)
(* to the base, the column it was decoded from (src, major, minor), which  *)
(* the program does not keep and the properties below speak about.  The    *)
(* model predicts the draft base on a draft column and '*' on an           *)
(* insertion column.                                                       *)
(***************************************************************************)
sample_result(s, sample_index) ==
    [seq |-> [k \in 1..NumColumns(s) |->
                 [base |-> IF s.positions_minor[k] = 0
                             THEN Draft[s.positions_major[k] + 1] ELSE "*",
                  src |-> "sample", index |-> sample_index,
                  major |-> s.positions_major[k], minor |-> s.positions_minor[k]]],
     quals |-> [k \in 1..NumColumns(s) |-> "I"]]

\* draft.substr(from, count), with the provenance of each base
draft_piece(draft, from, count) ==
    [k \in 1..Min(count, Len(draft) - from) |->
        [base |-> draft[from + k], src |-> "draft", index |-> -1,
         major |-> from + k - 1, minor |-> 0]]

\* std::string::substr(pos, count): count is a size_t, so a negative count
\* wraps around and selects up to the end of the string
substr(str, pos, count) ==
    SubSeq(str, pos + 1, IF count < 0 THEN Len(str) ELSE Min(pos + count, Len(str)))

(***************************************************************************)
(* stitch_sequence (polish_impl.cpp; stitch_sequence_2 of cli/polish.cpp   *)
(* is the same loop).  status is "ok", "out_of_range" when substr throws   *)
(* or "bad_index" when positions_major is indexed outside its range.       *)
(***************************************************************************)
RECURSIVE stitch_loop(_, _, _, _, _, _, _)
stitch_loop(draft, smp, trs, samples_for_seq, i, result, last_end) ==
    IF i >= Size(samples_for_seq)
      THEN [status |-> "ok", seq |-> result.seq, quals |-> result.quals,
            last_end |-> last_end]
    ELSE
      LET sample_index == At(samples_for_seq, i)[2]
          sample == At(smp, sample_index)
          res == sample_result(sample, sample_index)
          trim == At(trs, sample_index)
          start_pos == At(sample.positions_major, trim.start)
          end_pos == At(sample.positions_major, Size(sample.positions_major) - 1)
          fill == start_pos > last_end + 1
          count == start_pos - last_end - 1
          filled == IF fill
                      THEN [seq |-> result.seq \o draft_piece(draft, last_end + 1, count),
                            quals |-> result.quals \o [k \in 1..count |-> "!"]]
                    ELSE result
      IN  IF trim.start < 0 \/ trim.start >= NumColumns(sample)
            THEN [status |-> "bad_index", seq |-> result.seq, quals |-> result.quals,
                  last_end |-> last_end]
          ELSE IF trim.start > Len(res.seq)
            THEN [status |-> "out_of_range", seq |-> filled.seq, quals |-> filled.quals,
                  last_end |-> last_end]
          ELSE stitch_loop(draft, smp, trs, samples_for_seq, i + 1,
                   [seq |-> filled.seq \o substr(res.seq, trim.start, trim.end - trim.start),
                    quals |-> filled.quals
                                \o substr(res.quals, trim.start, trim.end - trim.start)],
                   end_pos)

stitch_sequence(draft, smp, trs, samples_for_seq) ==
    IF samples_for_seq = <<>>
      THEN [status |-> "ok", seq |-> draft_piece(draft, 0, Len(draft)),
            quals |-> [k \in 1..Len(draft) |-> "!"]]
    ELSE
      LET r == stitch_loop(draft, smp, trs, samples_for_seq, 0,
                           [seq |-> <<>>, quals |-> <<>>], -1)
          tail == (r.last_end + 1) < Len(draft)
      IN  IF r.status # "ok" THEN [status |-> r.status, seq |-> r.seq, quals |-> r.quals]
          ELSE IF tail
            THEN [status |-> "ok",
                  seq |-> r.seq \o draft_piece(draft, r.last_end + 1, Len(draft)),
                  quals |-> r.quals \o [k \in 1..(Len(draft) - r.last_end - 1) |-> "!"]]
          ELSE [status |-> "ok", seq |-> r.seq, quals |-> r.quals]

\* SelectSeq over two parallel strings: the bases and qualities left when the
\* '*' characters are taken out (write_seq of cli/polish.cpp)
RECURSIVE compact(_, _)
compact(seq, quals) ==
    IF seq = <<>> THEN [seq |-> <<>>, quals |-> <<>>]
    ELSE LET rest == compact(Tail(seq), Tail(quals))
         IN  IF Head(seq).base = "*" THEN rest
             ELSE [seq |-> <<Head(seq).base>> \o rest.seq,
                   quals |-> <<Head(quals)>> \o rest.quals]

\* what write_seq appends to the output file for one consensus
write_seq(result) ==
    IF result.seq = <<>> THEN <<>> ELSE <<compact(result.seq, result.quals)>>

(***************************************************************************)
(* The samples of one draft.  The pileup of the draft has one column per   *)
(* draft coordinate and, where the reads of a region carry an insertion,   *)
(* one insertion column after InsSite; a sample is a run of consecutive    *)
(* columns of such a pileup.                                               *)
(***************************************************************************)
RECURSIVE PileupColumns(_, _, _)
PileupColumns(from, to, ins) ==
    IF from >= to THEN <<>>
    ELSE <<<<from, 0>>>> \o (IF from \in ins THEN <<<<from, 1>>>> ELSE <<>>)
            \o PileupColumns(from + 1, to, ins)

SampleOf(cols, seq_id, region_id) ==
    MkSample([k \in 1..Len(cols) |-> cols[k][1]], [k \in 1..Len(cols) |-> cols[k][2]],
             seq_id, region_id)

InsChoices == {{}, {InsSite}}

DraftSamples ==
    { SampleOf(Slice(PileupColumns(0, DraftLen, ins), i, j), 0, -1) :
        <<ins, i, j>> \in { x \in InsChoices \X (0..DraftLen) \X (1..(DraftLen + 1)) :
                              x[2] < x[3] /\ x[3] <= Len(PileupColumns(0, DraftLen, x[1])) } }

\* the lists of n samples sorted ascending by start(); the first sample of a
\* draft begins on a draft column (minor == 0)
RECURSIVE SampleLists(_)
SampleLists(n) ==
    IF n = 0 THEN {<<>>}
    ELSE { Append(p[1], p[2]) :
             p \in { q \in SampleLists(n - 1) \X DraftSamples :
                       IF n = 1 THEN q[2].positions_minor[1] = 0
                       ELSE SampleStart(q[1][n - 1]) <= SampleStart(q[2]) } }

\* samples_for_seq of run_polishing: the (start, index) pairs of the draft's
\* samples after std::sort; the samples are sorted by start already
samples_for_seq_of(smp) == [k \in 1..Len(smp) |-> <<SampleStart(smp[k]), k - 1>>]

NoResult == [status |-> "none", seq |-> <<>>, quals |-> <<>>]

Idle == "idle"

(***************************************************************************)
(* The trim and stitch steps for one draft.                                *)
(***************************************************************************)
Init ==
    /\ pc = "trim"
    /\ samples \in UNION { SampleLists(n) : n \in 0..MaxSamples }
    /\ trims = <<>>
    /\ stitched = NoResult
    /\ written = <<>>
    /\ surg = Idle /\ win = Idle /\ vc = Idle /\ inf = Idle

\* trim_samples on the draft's samples
TrimSamples ==
    /\ pc = "trim"
    /\ LET r == trim_samples(samples)
       IN  /\ trims' = IF r.thrown THEN <<>> ELSE r.result
           /\ pc' = IF r.thrown THEN "trim_thrown" ELSE "stitch"
    /\ UNCHANGED <<samples, stitched, written, surg, win, vc, inf>>

\* the body of the stitching loop of run_polishing for the draft: a draft
\* without samples is skipped, any other is stitched and written
StitchDraft ==
    /\ pc = "stitch"
    /\ LET samples_for_seq == samples_for_seq_of(samples)
           consensus == stitch_sequence(Draft, samples, trims, samples_for_seq)
       IN  IF samples_for_seq = <<>>
             THEN /\ pc' = "done"
                  /\ UNCHANGED <<stitched, written>>
           ELSE /\ stitched' = consensus
                /\ pc' = IF consensus.status = "ok" THEN "done" ELSE "stitch_failed"
                /\ written' = IF consensus.status = "ok"
                                THEN written \o write_seq(consensus) ELSE written
    /\ UNCHANGED <<samples, trims, surg, win, vc, inf>>

Next == TrimSamples \/ StitchDraft

Spec == Init /\ [][Next]_vars

(***************************************************************************)
(* Properties of trimming and stitching.                                   *)
(***************************************************************************)
\* the columns (sample index, column index) the trims select
SelectedColumns ==
    { <<a, k>> \in (0..(Len(samples) - 1)) \X (0..DraftLen) :
        /\ a < Len(trims)
        /\ At(trims, a).start <= k /\ k < At(trims, a).end
        /\ k < NumColumns(At(samples, a)) }

\* the draft coordinates stitch_sequence filled from the draft
GapFilled == { stitched.seq[k].major : k \in { j \in 1..Len(stitched.seq) :
                                                 stitched.seq[j].src = "draft" } }

\* how many characters of the stitched sequence stand for draft coordinate c
Represented(c) ==
    Cardinality({ k \in 1..Len(stitched.seq) :
                    stitched.seq[k].major = c /\ stitched.seq[k].minor = 0 })

\* C1: for non-empty samples of one draft sorted by start, the trims returned
\* by trim_samples select no (major, minor) position twice, and the selected
\* columns together with the gap-filled draft intervals cover every draft
\* coordinate.
C1_TrimSpliceCoversOnce ==
    (pc = "done" /\ samples # <<>>) =>
        /\ \A x, y \in SelectedColumns :
              x # y => get_position(At(samples, x[1]), x[2])
                          # get_position(At(samples, y[1]), y[2])
        /\ \A c \in 0..(DraftLen - 1) :
              \/ c \in GapFilled
              \/ \E x \in SelectedColumns : get_position(At(samples, x[1]), x[2]) = <<c, 0>>

\* C2: after stitch_sequence, every draft coordinate is represented exactly
\* once in the output before '*' removal, by one sample column with minor 0
\* or by one gap-filled draft base.
C2_StitchRepresentsOnce ==
    (pc = "done" /\ samples # <<>>) => \A c \in 0..(DraftLen - 1) : Represented(c) = 1

\* C3: for a draft without samples the consensus emitted is the unmodified
\* draft with a quality string of '!' of the same length.
C3_EmptyDraftEmitted ==
    (pc = "done" /\ samples = <<>>) =>
        written = <<[seq |-> Draft, quals |-> [k \in 1..DraftLen |-> "!"]]>>

(***************************************************************************)
(* create_windows (polish_impl.cpp).                                       *)
(***************************************************************************)
MaxWindowLen == 3   \* largest window_len / chunk_len drawn

\* faulty variant of windows_from: the step ignores the overlap, so that
\* consecutive windows abut instead of overlapping
RECURSIVE windows_from_abutting(_, _, _, _, _, _, _, _)
windows_from_abutting(start, seq_id, seq_start, seq_end, seq_len, window_len, window_overlap, region_id) ==
    IF start >= seq_end THEN <<>>
    ELSE
      LET end == Min(seq_end, start + window_len)
          start_no_overlap ==
              IF start = seq_start THEN start ELSE Min(start + window_overlap, seq_end)
          w == [seq_id |-> seq_id, seq_length |-> seq_len, start |-> start, end |-> end,
                region_id |-> region_id, start_no_overlap |-> start_no_overlap,
                end_no_overlap |-> end]
      IN  IF end = seq_end THEN <<w>>
          ELSE <<w>> \o windows_from_abutting(start + window_len + 1, seq_id, seq_start,
                                              seq_end, seq_len, window_len,
                                              window_overlap, region_id)

RECURSIVE windows_from(_, _, _, _, _, _, _, _)
windows_from(start, seq_id, seq_start, seq_end, seq_len, window_len, window_overlap, region_id) ==
    IF start >= seq_end THEN <<>>
    ELSE
      LET end == Min(seq_end, start + window_len)
          start_no_overlap ==
              IF start = seq_start THEN start ELSE Min(start + window_overlap, seq_end)
          w == [seq_id |-> seq_id, seq_length |-> seq_len, start |-> start, end |-> end,
                region_id |-> region_id, start_no_overlap |-> start_no_overlap,
                end_no_overlap |-> end]
      IN  IF end = seq_end THEN <<w>>
          ELSE <<w>> \o windows_from(start + (window_len - window_overlap), seq_id,
                                     seq_start, seq_end, seq_len, window_len,
                                     window_overlap, region_id)

create_windows(seq_id, seq_start, seq_end, seq_len, window_len, window_overlap, region_id) ==
    IF window_overlap >= window_len THEN <<>>
    ELSE windows_from(seq_start, seq_id, seq_start, seq_end, seq_len, window_len,
                      window_overlap, region_id)

(***************************************************************************)
(* Sample surgery (polish_impl.cpp).                                       *)
(***************************************************************************)
\* Sample{features.slice(0, a, b), major[a, b), minor[a, b), depth.slice(0, a, b), ...}
sample_piece(sample, a, b) ==
    [positions_major |-> Slice(sample.positions_major, a, b),
     positions_minor |-> Slice(sample.positions_minor, a, b),
     features |-> Slice(sample.features, a, b),
     depth |-> Slice(sample.depth, a, b),
     seq_id |-> sample.seq_id, region_id |-> sample.region_id]

\* find_gaps: the indices i with positions[i] - positions[i - 1] > threshold, ascending
RECURSIVE find_gaps_from(_, _, _)
find_gaps_from(positions, threshold, i) ==
    IF i >= Size(positions) THEN <<>>
    ELSE (IF At(positions, i) - At(positions, i - 1) > threshold THEN <<i>> ELSE <<>>)
            \o find_gaps_from(positions, threshold, i + 1)

find_gaps(positions) == find_gaps_from(positions, 1, 1)

\* faulty variant of pieces_at: the piece after the last gap is forgotten
RECURSIVE pieces_at_no_tail(_, _, _)
pieces_at_no_tail(sample, gaps, start) ==
    IF gaps = <<>> THEN <<>>
    ELSE <<sample_piece(sample, start, Head(gaps))>>
            \o pieces_at_no_tail(sample, Tail(gaps), Head(gaps))

RECURSIVE pieces_at(_, _, _)
pieces_at(sample, gaps, start) ==
    IF gaps = <<>>
      THEN (IF start < Size(sample.positions_major)
              THEN <<sample_piece(sample, start, Size(sample.positions_major))>>
            ELSE <<>>)
    ELSE <<sample_piece(sample, start, Head(gaps))>>
            \o pieces_at(sample, Tail(gaps), Head(gaps))

split_sample_on_discontinuities(sample) ==
    LET gaps == find_gaps(sample.positions_major)
    IN  IF gaps = <<>> THEN <<sample>> ELSE pieces_at(sample, gaps, 0)

\* faulty variant of cat_buffer: the buffered fragments are joined last to first
cat_buffer_reversed(buffer, seq_id_buffer, region_id_buffer) ==
    LET n == Len(buffer)
    IN  [positions_major |-> Flatten([k \in 1..n |-> buffer[n + 1 - k].positions_major]),
         positions_minor |-> Flatten([k \in 1..n |-> buffer[n + 1 - k].positions_minor]),
         features |-> Flatten([k \in 1..n |-> buffer[n + 1 - k].features]),
         depth |-> Flatten([k \in 1..n |-> buffer[n + 1 - k].depth]),
         seq_id |-> seq_id_buffer, region_id |-> region_id_buffer]

\* the Sample built from the buffers: a move when one fragment is buffered,
\* torch::cat and cat_vectors otherwise
cat_buffer(buffer, seq_id_buffer, region_id_buffer) ==
    [positions_major |-> Flatten([k \in 1..Len(buffer) |-> buffer[k].positions_major]),
     positions_minor |-> Flatten([k \in 1..Len(buffer) |-> buffer[k].positions_minor]),
     features |-> Flatten([k \in 1..Len(buffer) |-> buffer[k].features]),
     depth |-> Flatten([k \in 1..Len(buffer) |-> buffer[k].depth]),
     seq_id |-> seq_id_buffer, region_id |-> region_id_buffer]

\* whether the sample continues the buffered chunk
\* faulty variant of is_contiguous: the region of the fragment is not compared
is_contiguous_any_region(buffer, sample, seq_id_buffer, region_id_buffer, last_end) ==
    \/ buffer = <<>>
    \/ /\ sample.seq_id = seq_id_buffer
       /\ (SampleStart(sample) - last_end) = 0

is_contiguous(buffer, sample, seq_id_buffer, region_id_buffer, last_end) ==
    \/ buffer = <<>>
    \/ /\ sample.seq_id = seq_id_buffer
       /\ sample.region_id = region_id_buffer
       /\ (SampleStart(sample) - last_end) = 0

RECURSIVE merge_loop(_, _, _, _, _, _, _)
merge_loop(smp, i, buffer, seq_id_buffer, region_id_buffer, last_end, results) ==
    IF i >= Size(smp)
      THEN (IF buffer # <<>>
              THEN Append(results, cat_buffer(buffer, seq_id_buffer, region_id_buffer))
            ELSE results)
    ELSE
      LET sample == At(smp, i)
      IN  IF sample.positions_major = <<>>
            THEN merge_loop(smp, i + 1, buffer, seq_id_buffer, region_id_buffer, last_end,
                            results)
          ELSE IF is_contiguous(buffer, sample, seq_id_buffer, region_id_buffer, last_end)
            THEN merge_loop(smp, i + 1, Append(buffer, sample), sample.seq_id,
                            sample.region_id, SampleEnd(sample), results)
          ELSE merge_loop(smp, i + 1, <<sample>>, sample.seq_id, sample.region_id,
                          SampleEnd(sample),
                          Append(results,
                                 cat_buffer(buffer, seq_id_buffer, region_id_buffer)))

merge_adjacent_samples(smp) == merge_loop(smp, 0, <<>>, -1, -1, -1, <<>>)

\* faulty variant of create_chunk: the feature rows are sliced one row short
create_chunk_short_features(sample, start, end) ==
    [sample_piece(sample, start, end) EXCEPT
        !.features = Slice(sample.features, start, end - 1)]

\* create_chunk of split_samples
create_chunk(sample, start, end) == sample_piece(sample, start, end)

\* faulty variant of sliding_chunks: the window advances by chunk_len, so
\* neighbouring chunks do not overlap
RECURSIVE sliding_chunks_no_overlap(_, _, _, _)
sliding_chunks_no_overlap(sample, start, chunk_len, step) ==
    IF start < (NumColumns(sample) - chunk_len + 1)
      THEN <<create_chunk(sample, start, start + chunk_len)>>
              \o sliding_chunks_no_overlap(sample, start + chunk_len, chunk_len, step)
    ELSE <<>>

\* the chunks of the sliding-window loop from `start` on
RECURSIVE sliding_chunks(_, _, _, _)
sliding_chunks(sample, start, chunk_len, step) ==
    IF start < (NumColumns(sample) - chunk_len + 1)
      THEN <<create_chunk(sample, start, start + chunk_len)>>
              \o sliding_chunks(sample, start + step, chunk_len, step)
    ELSE <<>>

\* faulty variant of split_one: the trailing columns become a short chunk of
\* their own instead of a full chunk that overlaps its predecessor
split_one_short_tail(sample, chunk_len, chunk_overlap) ==
    LET sample_len == NumColumns(sample)
        step == chunk_len - chunk_overlap
        slid == sliding_chunks(sample, 0, chunk_len, step)
        end == IF slid = <<>> THEN 0 ELSE (Len(slid) - 1) * step + chunk_len
    IN  IF sample_len <= chunk_len THEN [hang |-> FALSE, chunks |-> <<sample>>]
        ELSE IF step = 0 THEN [hang |-> TRUE, chunks |-> <<>>]
        ELSE IF end < sample_len
          THEN [hang |-> FALSE,
                chunks |-> Append(slid, create_chunk(sample, end, sample_len))]
        ELSE [hang |-> FALSE, chunks |-> slid]

\* the chunks of one sample; hang = TRUE when the sliding-window loop never ends
split_one(sample, chunk_len, chunk_overlap) ==
    LET sample_len == NumColumns(sample)
        step == chunk_len - chunk_overlap
        slid == sliding_chunks(sample, 0, chunk_len, step)
        end == IF slid = <<>> THEN 0 ELSE (Len(slid) - 1) * step + chunk_len
    IN  IF sample_len <= chunk_len THEN [hang |-> FALSE, chunks |-> <<sample>>]
        ELSE IF step = 0 THEN [hang |-> TRUE, chunks |-> <<>>]
        ELSE IF end < sample_len
          THEN [hang |-> FALSE,
                chunks |-> Append(slid, create_chunk(sample, sample_len - chunk_len,
                                                     sample_len))]
        ELSE [hang |-> FALSE, chunks |-> slid]

RECURSIVE split_loop(_, _, _, _, _)
split_loop(smp, i, chunk_len, chunk_overlap, results) ==
    IF i >= Size(smp) THEN [status |-> "ok", results |-> results]
    ELSE LET one == split_one(At(smp, i), chunk_len, chunk_overlap)
         IN  IF one.hang THEN [status |-> "hang", results |-> <<>>]
             ELSE split_loop(smp, i + 1, chunk_len, chunk_overlap, results \o one.chunks)

\* status is "ok", "thrown" (the argument check) or "hang" (no return)
split_samples(smp, chunk_len, chunk_overlap) ==
    IF chunk_overlap < 0 \/ chunk_overlap > chunk_len
      THEN [status |-> "thrown", results |-> <<>>]
    ELSE split_loop(smp, 0, chunk_len, chunk_overlap, <<>>)

(***************************************************************************)
(* Decoding (feature_decoder.cpp).  A logits row holds, per class of the   *)
(* label scheme, the class probability p written on the Phred scale        *)
(* (-10 * log10(1 - p) as an integer), so that argmax and the quality      *)
(* arithmetic are computed as the code computes them.                      *)
(***************************************************************************)
label_scheme == <<"*", "A", "C", "G", "T">>

cap == 70

\* logits.argmax(-1) of one row: the (first) class with the largest probability
argmax(row) ==
    CHOOSE c \in 0..(Len(row) - 1) :
        /\ \A d \in 0..(Len(row) - 1) : At(row, d) <= At(row, c)
        /\ \A d \in 0..(c - 1) : At(row, d) < At(row, c)

clamp(x, lo, hi) == IF x < lo THEN lo ELSE IF x > hi THEN hi ELSE x

\* one ConsensusResult per sample of the batch
decode_bases_impl(logits) ==
    [n \in 1..Len(logits) |->
        [seq |-> [j \in 1..Len(logits[n]) |-> At(label_scheme, argmax(logits[n][j]))],
         quals |-> [j \in 1..Len(logits[n]) |->
                       (clamp(At(logits[n][j], argmax(logits[n][j])), 0, cap) % 256) + 33]]]

\* the network is outside the repository: it maps [B, L, F] to [B, L, C].  The
\* row returned for a column favours the draft base (or '*' on an insertion
\* column) with a confidence that grows along the draft.
predict_on_batch(batch_features) ==
    [n \in 1..Len(batch_features) |->
        [j \in 1..Len(batch_features[n]) |->
            LET major == batch_features[n][j][2]
                minor == batch_features[n][j][3]
                best == IF minor = 0 THEN (major % 4) + 1 ELSE 0
            IN  [c \in 1..5 |-> IF c = best + 1 THEN (major + 1) * 13 ELSE 0]]]

(***************************************************************************)
(* Sample construction for one BAM region (create_samples).                *)
(***************************************************************************)
\* the pileup columns of [ref_start, ref_end): the covered draft positions,
\* with an insertion column after each covered position of ins
RECURSIVE calculate_pileup(_, _, _, _)
calculate_pileup(cov, ins, ref_start, ref_end) ==
    IF ref_start >= ref_end THEN <<>>
    ELSE (IF ref_start \in cov
            THEN <<<<ref_start, 0>>>>
                    \o (IF ref_start \in ins THEN <<<<ref_start, 1>>>> ELSE <<>>)
          ELSE <<>>)
            \o calculate_pileup(cov, ins, ref_start + 1, ref_end)

encode_region(cov, ins, ref_start, ref_end, seq_id) ==
    LET cols == calculate_pileup(cov, ins, ref_start, ref_end)
    IN  IF cols = <<>> THEN EmptySample ELSE SampleOf(cols, seq_id, -1)

RegionLen == 8   \* length of the BAM region

InitSurgery ==
    /\ pc = "surg_encode"
    /\ \E cov \in SUBSET (0..(RegionLen - 1)), ins \in InsChoices,
          window_len \in 1..MaxWindowLen :
          \E window_overlap \in (-1)..(window_len + 1) :
              surg = [cov |-> cov, ins |-> ins, window_len |-> window_len,
                      window_overlap |-> window_overlap, parallel_results |-> <<>>,
                      after_disc |-> <<>>, after_merge |-> <<>>, local_samples |-> <<>>,
                      results |-> <<>>]
    /\ samples = Idle /\ trims = Idle /\ stitched = Idle /\ written = Idle
    /\ win = Idle /\ vc = Idle /\ inf = Idle

\* the sub-windows of the BAM region are encoded
EncodeRegions ==
    /\ pc = "surg_encode"
    /\ LET windows == create_windows(0, 0, RegionLen, RegionLen, surg.window_len, 0, 0)
       IN  surg' = [surg EXCEPT !.parallel_results =
                       [k \in 1..Len(windows) |->
                           encode_region(surg.cov, surg.ins, windows[k].start,
                                         windows[k].end, windows[k].seq_id)]]
    /\ pc' = "surg_split_disc"
    /\ UNCHANGED <<samples, trims, stitched, written, win, vc, inf>>

SplitOnDiscontinuities ==
    /\ pc = "surg_split_disc"
    /\ surg' = [surg EXCEPT !.after_disc =
                   Flatten([k \in 1..Len(surg.parallel_results) |->
                               split_sample_on_discontinuities(surg.parallel_results[k])])]
    /\ pc' = "surg_merge"
    /\ UNCHANGED <<samples, trims, stitched, written, win, vc, inf>>

MergeAdjacent ==
    /\ pc = "surg_merge"
    /\ surg' = [surg EXCEPT !.after_merge = merge_adjacent_samples(surg.after_disc)]
    /\ pc' = "surg_split"
    /\ UNCHANGED <<samples, trims, stitched, written, win, vc, inf>>

SplitSamples ==
    /\ pc = "surg_split"
    /\ LET r == split_samples(surg.after_merge, surg.window_len, surg.window_overlap)
       IN  /\ surg' = [surg EXCEPT !.local_samples = r.results]
           /\ pc' = CASE r.status = "ok" -> "surg_infer"
                      [] r.status = "thrown" -> "surg_split_thrown"
                      [] OTHER -> "surg_split_hang"
    /\ UNCHANGED <<samples, trims, stitched, written, win, vc, inf>>

\* process_samples with batch size 1: forward() and decode per sample
InferSamples ==
    /\ pc = "surg_infer"
    /\ surg' = [surg EXCEPT !.results =
                   [k \in 1..Len(surg.local_samples) |->
                       decode_bases_impl(
                           predict_on_batch(<<surg.local_samples[k].features>>))[1]]]
    /\ pc' = "surg_done"
    /\ UNCHANGED <<samples, trims, stitched, written, win, vc, inf>>

NextSurgery ==
    EncodeRegions \/ SplitOnDiscontinuities \/ MergeAdjacent \/ SplitSamples \/ InferSamples

SpecSurgery == InitSurgery /\ [][NextSurgery]_vars

(***************************************************************************)
(* Properties of the sample surgery.                                       *)
(***************************************************************************)
\* the (major, minor) positions of a list of samples, concatenated
PositionsOf(smp) ==
    Flatten([k \in 1..Len(smp) |->
                [j \in 1..NumColumns(smp[k]) |-> get_position(smp[k], j - 1)]])

NonEmptySamples(smp) == SelectSeq(smp, LAMBDA s : s.positions_major # <<>>)

StrictlyIncreasing(s) ==
    \A j \in 1..(NumColumns(s) - 1) : PosLT(get_position(s, j - 1), get_position(s, j))

AllIncreasing(smp) == \A k \in 1..Len(smp) : StrictlyIncreasing(smp[k])

LengthsAgree(s) ==
    /\ Len(s.features) = Len(s.positions_major)
    /\ Len(s.positions_minor) = Len(s.positions_major)
    /\ Len(s.depth) = Len(s.positions_major)

AllLengthsAgree(smp) == \A k \in 1..Len(smp) : LengthsAgree(smp[k])

Merged == {"surg_split", "surg_infer", "surg_split_thrown", "surg_split_hang", "surg_done"}

\* C4: for the samples of one BAM region given in order, the positions of the
\* samples returned by split_sample_on_discontinuities followed by
\* merge_adjacent_samples, concatenated, are the positions of the non-empty
\* input samples, concatenated: nothing is lost, repeated or reordered.
C4_SurgeryPreservesPositions ==
    pc \in Merged =>
        PositionsOf(surg.after_merge) = PositionsOf(NonEmptySamples(surg.parallel_results))

\* a region with an empty window, a coverage gap inside a window and two
\* fragments that were merged across a window border
C4_Witness ==
    /\ pc = "surg_split"
    /\ \E k \in 1..Len(surg.parallel_results) : surg.parallel_results[k] = EmptySample
    /\ \E k \in 1..Len(surg.parallel_results) :
          Len(split_sample_on_discontinuities(surg.parallel_results[k])) > 1
    /\ Len(surg.after_merge) < Len(NonEmptySamples(surg.after_disc))
    /\ \E k \in 1..Len(surg.after_merge) : 1 \in Range(surg.after_merge[k].positions_minor)

\* C5: every sample returned by split_samples has exactly chunk_len columns,
\* except that an input sample of at most chunk_len columns is returned
\* unchanged.
C5_SplitChunkLength ==
    pc = "surg_infer" =>
        /\ \A k \in 1..Len(surg.local_samples) :
              \/ NumColumns(surg.local_samples[k]) = surg.window_len
              \/ /\ NumColumns(surg.local_samples[k]) <= surg.window_len
                 /\ \E j \in 1..Len(surg.after_merge) :
                       surg.after_merge[j] = surg.local_samples[k]
        /\ \A j \in 1..Len(surg.after_merge) :
              NumColumns(surg.after_merge[j]) <= surg.window_len =>
                  \E k \in 1..Len(surg.local_samples) :
                      surg.local_samples[k] = surg.after_merge[j]

\* a short sample passed through next to a long one whose trailing columns
\* needed the extra, overlapping chunk
C5_Witness ==
    /\ pc = "surg_infer"
    /\ \E j \in 1..Len(surg.after_merge) :
          NumColumns(surg.after_merge[j]) < surg.window_len
    /\ \E j \in 1..Len(surg.after_merge) :
          /\ NumColumns(surg.after_merge[j]) > surg.window_len
          /\ (NumColumns(surg.after_merge[j]) - surg.window_len)
                 % (surg.window_len - surg.window_overlap) # 0

C8_SurgeryKeepsOrder ==
    AllIncreasing(surg.parallel_results) =>
        /\ pc # "surg_encode" => AllIncreasing(surg.after_disc)
        /\ pc \in Merged => AllIncreasing(surg.after_merge)
        /\ pc \in {"surg_infer", "surg_done"} => AllIncreasing(surg.local_samples)

\* all three passes changed the list: a gap was cut, fragments were merged and
\* the merged sample, insertion column included, was chunked
C8_Witness ==
    /\ pc = "surg_infer"
    /\ Len(surg.after_disc) > Len(surg.parallel_results)
    /\ Len(surg.after_merge) < Len(NonEmptySamples(surg.after_disc))
    /\ Len(surg.local_samples) > Len(surg.after_merge)
    /\ \E k \in 1..Len(surg.local_samples) :
          1 \in Range(surg.local_samples[k].positions_minor)

(***************************************************************************)
(* BAM regions of one draft (create_bam_regions).                          *)
(***************************************************************************)
\* a region string "name", "name:", "name:s", "name:s-e", "name:-e": the text
\* of s and e is None when absent, the number written otherwise
None == -1

NoRegion == [name |-> "", start |-> None, end |-> None]

RegionStrings ==
    {NoRegion} \cup
    [name : {"draft", "other"}, start : {None} \cup (0..DraftLen),
     end : {None} \cup (0..(DraftLen + 1))]

\* (name, zero-based start, end); -1 for an absent coordinate
parse_region_string(region) ==
    [name |-> region.name,
     start |-> IF region.start = None THEN -1 ELSE region.start - 1,
     end |-> IF region.end = None THEN -1 ELSE region.end]

\* the draft of the model is sequence 0, named "draft"
create_bam_regions(draft_len, bam_chunk_len, window_overlap, region_str) ==
    IF region_str = NoRegion
      THEN [status |-> "ok", seq_start |-> 0, seq_end |-> draft_len,
            windows |-> create_windows(0, 0, draft_len, draft_len, bam_chunk_len,
                                       window_overlap, -1)]
    ELSE
      LET parsed == parse_region_string(region_str)
          seq_id == IF parsed.name = "draft" THEN 0 ELSE -1
          seq_length == IF parsed.name = "draft" THEN draft_len ELSE 0
          region_start == IF parsed.start < 0 THEN 0 ELSE parsed.start
          region_end == IF parsed.end <= 0 THEN seq_length ELSE parsed.end
      IN  IF seq_id < 0
            THEN [status |-> "thrown", seq_start |-> region_start, seq_end |-> region_end,
                  windows |-> <<>>]
          ELSE [status |-> "ok", seq_start |-> region_start, seq_end |-> region_end,
                windows |-> create_windows(seq_id, region_start, region_end, seq_length,
                                           bam_chunk_len, window_overlap, -1)]

InitWindows ==
    /\ pc = "win_call"
    /\ \E draft_len \in 1..DraftLen, region_str \in RegionStrings,
          bam_chunk_len \in 0..MaxWindowLen, window_overlap \in (-1)..MaxWindowLen :
          win = [draft_len |-> draft_len, region_str |-> region_str,
                 bam_chunk_len |-> bam_chunk_len, window_overlap |-> window_overlap,
                 seq_start |-> 0, seq_end |-> 0, windows |-> <<>>]
    /\ samples = Idle /\ trims = Idle /\ stitched = Idle /\ written = Idle
    /\ surg = Idle /\ vc = Idle /\ inf = Idle

CreateBamRegions ==
    /\ pc = "win_call"
    /\ LET r == create_bam_regions(win.draft_len, win.bam_chunk_len, win.window_overlap,
                                   win.region_str)
       IN  /\ win' = [win EXCEPT !.seq_start = r.seq_start, !.seq_end = r.seq_end,
                                 !.windows = r.windows]
           /\ pc' = IF r.status = "ok" THEN "win_done" ELSE "win_thrown"
    /\ UNCHANGED <<samples, trims, stitched, written, surg, vc, inf>>

NextWindows == CreateBamRegions

SpecWindows == InitWindows /\ [][NextWindows]_vars

\* C6: for seq_start < seq_end and 0 <= window_overlap < window_len,
\* create_windows returns windows sorted by start of which the first starts at
\* seq_start and the last ends at seq_end, every window has
\* start < end <= start + window_len, and every window after the first starts
\* no later than its predecessor ends.
C6_WindowsTileTheRegion ==
    (/\ pc = "win_done"
     /\ win.seq_start < win.seq_end
     /\ 0 <= win.window_overlap
     /\ win.window_overlap < win.bam_chunk_len) =>
        LET w == win.windows
        IN  /\ w # <<>>
            /\ w[1].start = win.seq_start
            /\ w[Len(w)].end = win.seq_end
            /\ \A k \in 1..Len(w) :
                  w[k].start < w[k].end /\ w[k].end <= w[k].start + win.bam_chunk_len
            /\ \A k \in 2..Len(w) :
                  /\ w[k - 1].start <= w[k].start
                  /\ w[k].start - w[k - 1].end <= 0

\* a custom region cut into three or more windows that overlap, the last of
\* them shorter than the window length
C6_Witness ==
    /\ pc = "win_done"
    /\ win.region_str # NoRegion
    /\ 0 < win.seq_start
    /\ win.seq_start < win.seq_end
    /\ 0 < win.window_overlap
    /\ win.window_overlap < win.bam_chunk_len
    /\ Len(win.windows) >= 3
    /\ win.windows[Len(win.windows)].end - win.windows[Len(win.windows)].start
          < win.bam_chunk_len

(***************************************************************************)
(* Variant calling (variant_calling.cpp).                                  *)
(***************************************************************************)
MaxVcLen == 3   \* most columns of a variant-calling sample

\* thrown when the two position vectors differ in size
extract_draft_with_gaps(draft, positions_major, positions_minor) ==
    IF Size(positions_major) # Size(positions_minor) THEN [thrown |-> TRUE, seq |-> <<>>]
    ELSE [thrown |-> FALSE,
          seq |-> [i \in 1..Len(positions_major) |->
                      IF positions_minor[i] = 0 THEN draft[positions_major[i] + 1]
                      ELSE "*"]]

\* faulty variant of set_true: only the first column of [from, to) is set
set_true_first_only(ret, from, to) ==
    [j \in 1..Len(ret) |-> IF from = j - 1 /\ j - 1 < to THEN TRUE ELSE ret[j]]

\* ret[j] = true for j in [from, to)
set_true(ret, from, to) ==
    [j \in 1..Len(ret) |-> IF from <= j - 1 /\ j - 1 < to THEN TRUE ELSE ret[j]]

RECURSIVE variant_columns_loop(_, _, _, _, _, _, _)
variant_columns_loop(minor, reference, prediction, i, ret, insert_length, is_var) ==
    LET len == Size(prediction)
    IN  IF i >= len
          THEN (IF is_var THEN set_true(ret, len - insert_length, len) ELSE ret)
        ELSE IF At(minor, i) = 0
          THEN LET marked == IF is_var THEN set_true(ret, i - insert_length, i) ELSE ret
                   var == At(reference, i) # At(prediction, i)
               IN  variant_columns_loop(minor, reference, prediction, i + 1,
                                        [marked EXCEPT ![i + 1] = var], 0, var)
        ELSE variant_columns_loop(minor, reference, prediction, i + 1, ret,
                                  insert_length + 1,
                                  is_var \/ (At(reference, i) # At(prediction, i)))

\* thrown when the three lengths differ; called on at least one column
variant_columns(minor, reference, prediction) ==
    IF ~(Size(minor) = Size(reference) /\ Size(reference) = Size(prediction))
      THEN [thrown |-> TRUE, ret |-> <<>>]
    ELSE LET is_var == At(reference, 0) # At(prediction, 0)
             ret == [j \in 1..Size(prediction) |-> IF j = 1 THEN is_var ELSE FALSE]
         IN  [thrown |-> FALSE,
              ret |-> variant_columns_loop(minor, reference, prediction, 1, ret, 0, is_var)]

\* the runs (start, end, value) of equal neighbouring values, end exclusive
RECURSIVE run_length_encode_from(_, _, _)
run_length_encode_from(data, start, i) ==
    IF start >= Size(data) THEN <<>>
    ELSE IF i < Size(data) /\ At(data, i) = At(data, start)
      THEN run_length_encode_from(data, start, i + 1)
    ELSE <<<<start, i, At(data, start)>>>> \o run_length_encode_from(data, i, i + 1)

run_length_encode(data) == run_length_encode_from(data, 0, 1)

remove_gaps(seq) == SelectSeq(seq, LAMBDA c : c # "*")

is_subset_of_symbols(symbol_set, query) == \A k \in 1..Len(query) : query[k] \in symbol_set

\* symbol_lookup[c]: the class of c, -1 for a character outside the alphabet
symbol_lookup(c) ==
    IF c \in Range(label_scheme)
      THEN (CHOOSE k \in 1..Len(label_scheme) : label_scheme[k] = c) - 1
    ELSE -1

encode_seq(seq, substitute_n) ==
    [i \in 1..Len(seq) |->
        symbol_lookup(IF substitute_n /\ seq[i] = "N" THEN "*" ELSE seq[i])]

\* err = 1 - prob enters on the Phred scale: -10 * log10(err), clamped to the cap
phred(q, qcap) == Min(Max(q, 0), qcap)

RECURSIVE sum_seq(_)
sum_seq(v) == IF v = <<>> THEN 0 ELSE Head(v) + sum_seq(Tail(v))

\* class_probs[i][j] with j = -1 reads the last class, as a tensor index does
compute_seq_quality(class_probs, seq, substitute_n) ==
    LET encoded == encode_seq(seq, substitute_n)
    IN  sum_seq([i \in 1..Len(encoded) |->
                    LET j == IF encoded[i] < 0 THEN Len(class_probs[i]) + encoded[i]
                             ELSE encoded[i]
                    IN  phred(At(class_probs[i], j), 70)])

\* faulty variant of skip_variant: a run whose alleles agree is kept
skip_variant_ambiguous_only(var_ref, var_pred, ambig_ref) ==
    ~ambig_ref /\ ~is_subset_of_symbols(Range(label_scheme), var_ref)

\* the two `continue`s of the run loop
skip_variant(var_ref, var_pred, ambig_ref) ==
    \/ var_ref = var_pred
    \/ ~ambig_ref /\ ~is_subset_of_symbols(Range(label_scheme), var_ref)

\* faulty variant of variant_of_run: the draft base is not prepended to a run
\* that starts on an insert column
variant_of_run_unanchored(vc_sample, draft, reference, prediction, ambig_ref, rstart, rend) ==
    LET var_ref == remove_gaps(Slice(reference, rstart, rend))
        var_pred == remove_gaps(Slice(prediction, rstart, rend))
        var_probs == Slice(vc_sample.logits, rstart, rend)
        ref_qv == compute_seq_quality(var_probs, Slice(reference, rstart, rend), TRUE)
        pred_qv == compute_seq_quality(var_probs, Slice(prediction, rstart, rend), FALSE)
    IN  IF skip_variant(var_ref, var_pred, ambig_ref) THEN <<>>
        ELSE <<[seq_id |-> vc_sample.sample.seq_id,
                pos |-> At(vc_sample.sample.positions_major, rstart),
                ref |-> var_ref, alt |-> var_pred,
                filter |-> "PASS", qual |-> pred_qv - ref_qv,
                genotype |-> [GT |-> "1", GQ |-> pred_qv - ref_qv]]>>

\* the Variant of the run [rstart, rend), <<>> when the run is skipped
variant_of_run(vc_sample, draft, reference, prediction, ambig_ref, rstart, rend) ==
    LET var_ref_with_gaps == Slice(reference, rstart, rend)
        var_pred_with_gaps == Slice(prediction, rstart, rend)
        var_ref == remove_gaps(var_ref_with_gaps)
        var_pred == remove_gaps(var_pred_with_gaps)
        var_probs == Slice(vc_sample.logits, rstart, rend)
        ref_qv == compute_seq_quality(var_probs, var_ref_with_gaps, TRUE)
        pred_qv == compute_seq_quality(var_probs, var_pred_with_gaps, FALSE)
        var_pos == At(vc_sample.sample.positions_major, rstart)
        on_insert == At(vc_sample.sample.positions_minor, rstart) # 0
    IN  IF skip_variant(var_ref, var_pred, ambig_ref) THEN <<>>
        ELSE <<[seq_id |-> vc_sample.sample.seq_id, pos |-> var_pos,
                ref |-> IF on_insert THEN <<draft[var_pos + 1]>> \o var_ref ELSE var_ref,
                alt |-> IF on_insert THEN <<draft[var_pos + 1]>> \o var_pred ELSE var_pred,
                filter |-> "PASS", qual |-> pred_qv - ref_qv,
                genotype |-> [GT |-> "1", GQ |-> pred_qv - ref_qv]]>>

\* status is "ok" or "thrown"
decode_variants(vc_sample, draft, ambig_ref) ==
    IF vc_sample.sample.positions_major = <<>> THEN [status |-> "ok", variants |-> <<>>]
    ELSE IF At(vc_sample.sample.positions_minor, 0) # 0
      THEN [status |-> "thrown", variants |-> <<>>]
    ELSE
      LET prediction == decode_bases_impl(<<vc_sample.logits>>)[1].seq
          reference == extract_draft_with_gaps(draft, vc_sample.sample.positions_major,
                                               vc_sample.sample.positions_minor)
          is_variant == variant_columns(vc_sample.sample.positions_minor, reference.seq,
                                        prediction)
          runs == run_length_encode(is_variant.ret)
      IN  IF reference.thrown \/ is_variant.thrown
            THEN [status |-> "thrown", variants |-> <<>>]
          ELSE [status |-> "ok",
                variants |->
                    Flatten([r \in 1..Len(runs) |->
                                IF ~runs[r][3] THEN <<>>
                                ELSE variant_of_run(vc_sample, draft, reference.seq,
                                                    prediction, ambig_ref, runs[r][1],
                                                    runs[r][2])])]

\* the drafts of the variant-calling runs: the plain draft and one with an
\* ambiguous base
VcDrafts == {Draft, [Draft EXCEPT ![2] = "N"]}

\* samples of at most MaxVcLen consecutive pileup columns, the empty sample and
\* samples that begin on an insertion column included
VcSamples ==
    { SampleOf(Slice(PileupColumns(0, DraftLen, x[1]), x[2], x[3]), 0, -1) :
        x \in { y \in InsChoices \X (0..(DraftLen + 1)) \X (0..(DraftLen + 1)) :
                  /\ y[2] <= y[3]
                  /\ y[3] - y[2] <= MaxVcLen
                  /\ y[3] <= Len(PileupColumns(0, DraftLen, y[1])) } }

\* a row of class probabilities in which class c has probability 0.999
logits_row(c) == [k \in 1..Len(label_scheme) |-> IF k = c + 1 THEN 30 ELSE 0]

\* the logits of n columns, one predicted class per column
LogitsOf(n) ==
    { [j \in 1..n |-> logits_row(f[j])] : f \in [1..n -> 0..(Len(label_scheme) - 1)] }

InitVariants ==
    /\ pc = "vc_decode"
    /\ \E draft \in VcDrafts, sample \in VcSamples, ambig_ref \in BOOLEAN :
          \E logits \in LogitsOf(NumColumns(sample))
                          \cup LogitsOf(Max(NumColumns(sample) - 1, 0)) :
              vc = [draft |-> draft, vc_sample |-> [sample |-> sample, logits |-> logits],
                    ambig_ref |-> ambig_ref, variants |-> <<>>]
    /\ samples = Idle /\ trims = Idle /\ stitched = Idle /\ written = Idle
    /\ surg = Idle /\ win = Idle /\ inf = Idle

DecodeVariants ==
    /\ pc = "vc_decode"
    /\ LET r == decode_variants(vc.vc_sample, vc.draft, vc.ambig_ref)
       IN  /\ vc' = [vc EXCEPT !.variants = r.variants]
           /\ pc' = IF r.status = "ok" THEN "vc_done" ELSE "vc_thrown"
    /\ UNCHANGED <<samples, trims, stitched, written, surg, win, inf>>

NextVariants == DecodeVariants

SpecVariants == InitVariants /\ [][NextVariants]_vars

\* C9: every variant returned by decode_variants has a reference allele that
\* differs from its alternative allele, and a position within the draft:
\* 0 <= position < len(draft).
C9_VariantsAreReal ==
    pc = "vc_done" =>
        \A k \in 1..Len(vc.variants) :
            /\ vc.variants[k].ref # vc.variants[k].alt
            /\ 0 <= vc.variants[k].pos
            /\ vc.variants[k].pos < Len(vc.draft)

\* one sample gave a deletion with an empty alternative allele and an
\* insertion to which the draft base was prepended
C9_Witness ==
    /\ pc = "vc_done"
    /\ Len(vc.variants) = 2
    /\ vc.variants[1].alt = <<>>
    /\ Len(vc.variants[2].ref) = 1
    /\ Len(vc.variants[2].alt) = 2
    /\ vc.variants[2].alt[1] = vc.variants[2].ref[1]

(***************************************************************************)
(* Inference over all samples (process_samples_in_parallel).               *)
(***************************************************************************)
MaxInferSamples == 3   \* most samples handed to the inference
MaxThreads == 2        \* most models (one worker thread per model)
MaxBatch == 2          \* largest batch_size

\* CountsFeatureDecoder::decode_bases
decode_bases(logits) ==
    [n \in 1..Len(logits) |->
        [seq |-> [j \in 1..Len(logits[n]) |-> At(label_scheme, argmax(logits[n][j]))],
         quals |-> [j \in 1..Len(logits[n]) |->
                       (clamp(At(logits[n][j], argmax(logits[n][j])), 0, 40) % 256) + 33]]]

RECURSIVE chunks_of(_, _)
chunks_of(chunk_sizes, sum) ==
    IF chunk_sizes = <<>> THEN <<>>
    ELSE IF Head(chunk_sizes) = 0 THEN chunks_of(Tail(chunk_sizes), sum)
    ELSE <<<<sum, sum + Head(chunk_sizes)>>>>
            \o chunks_of(Tail(chunk_sizes), sum + Head(chunk_sizes))

\* called with num_chunks > 0; the sizes always add up to num_items
compute_chunks(num_items, num_chunks) ==
    chunks_of([i \in 1..num_chunks |->
                  (num_items \div num_chunks)
                      + (IF i - 1 < num_items % num_chunks THEN 1 ELSE 0)], 0)

\* the indices i of [chunk_start, chunk_end) whose sample has window_len
\* columns (regular = TRUE) or has not (regular = FALSE), ascending
RECURSIVE select_ids(_, _, _, _, _)
select_ids(in_samples, window_len, i, chunk_end, regular) ==
    IF i >= chunk_end THEN <<>>
    ELSE (IF (NumColumns(At(in_samples, i)) = window_len) = regular THEN <<i>> ELSE <<>>)
            \o select_ids(in_samples, window_len, i + 1, chunk_end, regular)

\* the list of sample ids the worker is in: regular first, remainders second
worker_list(w, in_samples, window_len) ==
    select_ids(in_samples, window_len, w.chunk_start, w.chunk_end, w.phase = "regular")

\* the worker's position after a loop of process_samples has run out: on to the
\* remainders, then to the end of the task
RECURSIVE advance(_, _, _)
advance(w, in_samples, window_len) ==
    IF w.phase = "done" \/ w.start < Len(worker_list(w, in_samples, window_len)) THEN w
    ELSE IF w.phase = "regular"
      THEN advance([w EXCEPT !.phase = "remainders", !.start = 0], in_samples, window_len)
    ELSE [w EXCEPT !.phase = "done", !.start = 0]

DefaultResult == [seq |-> <<>>, quals |-> <<>>]

\* the samples handed to the inference: sample k covers draft columns from
\* 2 * k on and has one or two columns; two columns make a full window
InferSampleLists ==
    UNION { { [k \in 1..n |-> SampleOf(PileupColumns(2 * (k - 1), 2 * (k - 1) + len[k], {}),
                                       0, -1)] :
                len \in [1..n -> 1..2] } : n \in 0..MaxInferSamples }

InitInfer ==
    /\ pc = "inf_start"
    /\ \E in_samples \in InferSampleLists, num_threads \in 0..MaxThreads,
          batch_size \in 1..MaxBatch :
          inf = [in_samples |-> in_samples, window_len |-> 2, batch_size |-> batch_size,
                 num_threads |-> num_threads, workers |-> <<>>, futures |-> <<>>,
                 results |-> <<>>, inferred |-> <<>>]
    /\ samples = Idle /\ trims = Idle /\ stitched = Idle /\ written = Idle
    /\ surg = Idle /\ win = Idle /\ vc = Idle

\* the driver throws without models; otherwise it sizes the results and pushes
\* one task per chunk to the pool
LaunchWorkers ==
    /\ pc = "inf_start"
    /\ IF inf.num_threads = 0
         THEN /\ pc' = "inf_thrown"
              /\ inf' = inf
       ELSE LET chunks == compute_chunks(Len(inf.in_samples), inf.num_threads)
                workers == [tid \in 1..Len(chunks) |->
                               advance([chunk_start |-> chunks[tid][1],
                                        chunk_end |-> chunks[tid][2],
                                        phase |-> "regular", start |-> 0],
                                       inf.in_samples, inf.window_len)]
            IN  /\ pc' = "inf_running"
                /\ inf' = [inf EXCEPT
                              !.workers = workers,
                              !.futures = [tid \in 1..Len(chunks) |-> "running"],
                              !.results = [k \in 1..Len(inf.in_samples) |-> DefaultResult],
                              !.inferred = [k \in 1..Len(inf.in_samples) |-> <<>>]]
    /\ UNCHANGED <<samples, trims, stitched, written, surg, win, vc>>

\* one batch of a worker: forward() either throws, which ends the task with the
\* exception stored in its future, or its output is decoded into the results
WorkerBatch(tid) ==
    /\ pc = "inf_running"
    /\ inf.futures[tid] = "running"
    /\ LET w == inf.workers[tid]
           list == worker_list(w, inf.in_samples, inf.window_len)
           size == IF w.phase = "regular" THEN inf.batch_size ELSE 1
           end == Min(w.start + size, Len(list))
           ids == Slice(list, w.start, end)
           output == predict_on_batch([j \in 1..Len(ids) |->
                                          At(inf.in_samples, ids[j]).features])
           new_results == decode_bases(output)
           next == advance([w EXCEPT !.start = w.start + size], inf.in_samples,
                           inf.window_len)
       IN  \E throws \in BOOLEAN :
              IF throws
                THEN inf' = [inf EXCEPT !.futures[tid] = "exception"]
              ELSE inf' = [inf EXCEPT
                              !.results = [k \in 1..Len(inf.results) |->
                                              IF \E j \in 1..Len(ids) : ids[j] = k - 1
                                                THEN new_results[CHOOSE j \in 1..Len(ids) :
                                                                    ids[j] = k - 1]
                                              ELSE inf.results[k]],
                              !.inferred = [k \in 1..Len(inf.inferred) |->
                                               IF \E j \in 1..Len(ids) : ids[j] = k - 1
                                                 THEN Append(inf.inferred[k],
                                                             <<tid, Len(ids)>>)
                                               ELSE inf.inferred[k]],
                              !.workers[tid] = next,
                              !.futures[tid] = IF next.phase = "done" THEN "ready"
                                               ELSE "running"]
    /\ UNCHANGED <<pc, samples, trims, stitched, written, surg, win, vc>>

\* f.wait() on every future, then `return results`
WaitFutures ==
    /\ pc = "inf_running"
    /\ \A tid \in 1..Len(inf.futures) : inf.futures[tid] # "running"
    /\ pc' = "inf_returned"
    /\ UNCHANGED <<inf, samples, trims, stitched, written, surg, win, vc>>

NextInfer ==
    \/ LaunchWorkers
    \/ \E tid \in 1..MaxThreads : tid <= Len(inf.futures) /\ WorkerBatch(tid)
    \/ WaitFutures

SpecInfer == InitInfer /\ [][NextInfer]_vars

\* C10: if the model's predict throws, the error reaches the caller of the
\* inference driver and no consensus results are handed on: the driver never
\* returns results after a batch has failed.
C10_PredictErrorReachesCaller ==
    pc = "inf_returned" => \A tid \in 1..Len(inf.futures) : inf.futures[tid] # "exception"

\* C11: when process_samples_in_parallel returns normally, results[i] is the
\* decoded output of in_samples[i] for every index i, and each index was
\* inferred exactly once, by one worker: in a stacked batch of at most
\* batch_size samples when the sample has window_len columns, alone otherwise.
C11_EveryIndexDecodedOnce ==
    pc = "inf_returned" =>
        \A k \in 1..Len(inf.in_samples) :
            /\ inf.results[k] = decode_bases(predict_on_batch(<<inf.in_samples[k].features>>))[1]
            /\ Len(inf.inferred[k]) = 1
            /\ IF NumColumns(inf.in_samples[k]) = inf.window_len
                 THEN inf.inferred[k][1][2] <= inf.batch_size
               ELSE inf.inferred[k][1][2] = 1

\* C12: window creation with an overlap greater than or equal to the window
\* length fails with an error that reaches the caller: no window list is
\* returned and the region is not processed further.
C12_InvalidWindowingFails ==
    (pc # "win_call" /\ win.window_overlap >= win.bam_chunk_len) => pc = "win_thrown"

Trimmed == {"stitch", "done", "stitch_failed"}

\* C13: when the position range of s2 lies within the range of s1
\* (S2_WITHIN_S1), trim_samples drops s2: the trim returned for s2 is (0, 0).
C13_ContainedSampleDropped ==
    (/\ pc \in Trimmed
     /\ Len(samples) >= 2
     /\ relative_position(samples[1], samples[2]) = "S2_WITHIN_S1") =>
        (trims[2].start = 0 /\ trims[2].end = 0)

OverlapI1 ==
    Max0({k \in 0..(NumColumns(samples[1]) - 1) :
             PosLE(get_position(samples[1], k), get_position(samples[2], 0))})

OverlapI2 ==
    Min0({k \in 0..(NumColumns(samples[2]) - 1) :
             PosLT(get_last_position(samples[1]), get_position(samples[2], k))})

OverlapColumns ==
    Cardinality({k \in 0..(NumColumns(samples[1]) - 1) :
                    PosLE(get_position(samples[2], 0), get_position(samples[1], k))})

SameMinors ==
    Slice(samples[1].positions_minor, OverlapI1, NumColumns(samples[1]))
        = Slice(samples[2].positions_minor, 0, OverlapI2)

\* C19: for a FORWARD_OVERLAP pair whose overlapping minor sub-sequences are
\* element-wise equal, the cut is the midpoint of the overlap:
\* trim1.end = i1 + floor(overlap / 2) and trim2.start = i2 - ceil(overlap / 2).
C19_MidpointCut ==
    (/\ pc \in Trimmed
     /\ Len(samples) >= 2
     /\ relative_position(samples[1], samples[2]) = "FORWARD_OVERLAP"
     /\ SameMinors) =>
        /\ trims[1].end = OverlapI1 + (OverlapColumns \div 2)
        /\ trims[2].start = OverlapI2 - (OverlapColumns - (OverlapColumns \div 2))

\* the cut the outward scan from the overlap midpoint finds for the first two
\* samples; end1 = -1 when no offset has matching streaks
ScanOfOverlap ==
    LET s1 == samples[1]
        start == At(s1.positions_major, OverlapI1)
        end == At(s1.positions_major, NumColumns(s1) - 1)
    IN  heuristic_scan(s1, samples[2], start, end, start + ((end - start) \div 2), 1)

\* C20: for a FORWARD_OVERLAP pair whose overlapping minor sub-sequences
\* differ and whose overlap holds at least UNIQ_MAJ distinct major positions
\* in each sample, the cut is the first offset from the overlap midpoint at
\* which the streaks of equal major values have the same length in both
\* samples, whenever there is such an offset.
C20_HeuristicCut ==
    (/\ pc \in Trimmed
     /\ Len(samples) >= 2
     /\ relative_position(samples[1], samples[2]) = "FORWARD_OVERLAP"
     /\ ~SameMinors
     /\ count_unique(samples[1].positions_major, OverlapI1, NumColumns(samples[1]))
            >= UNIQ_MAJ
     /\ count_unique(samples[2].positions_major, 0, OverlapI2) >= UNIQ_MAJ
     /\ ScanOfOverlap.end1 # -1) =>
        /\ trims[1].end = ScanOfOverlap.end1
        /\ trims[2].start = ScanOfOverlap.start2

(***************************************************************************)
(* stitch_sequence on trims of any shape.  stitch_sequence takes the trims *)
(* as an argument and TrimInfo{} is (0, -1): the trims of a draft's        *)
(* samples are those of trim_samples, one of them replaced by an arbitrary *)
(* pair of small coordinates.                                              *)
(***************************************************************************)
MaxTrim == 2

TrimCoordinates == (0 - 1)..MaxTrim

InitStitch ==
    /\ pc = "stitch"
    /\ samples \in { l \in UNION { SampleLists(n) : n \in 1..MaxSamples } :
                       ~trim_samples(l).thrown }
    /\ \E k \in 1..Len(samples), s \in TrimCoordinates, e \in TrimCoordinates :
          trims = [trim_samples(samples).result EXCEPT ![k] = [start |-> s, end |-> e]]
    /\ stitched = NoResult
    /\ written = <<>>
    /\ surg = Idle /\ win = Idle /\ vc = Idle /\ inf = Idle

NextStitch == StitchDraft

SpecStitch == InitStitch /\ [][NextStitch]_vars

\* a trim with start > end, or with a negative start or end
Malformed(trim) == trim.start > trim.end \/ trim.start < 0 \/ trim.end < 0

\* C15: whenever a trim the stitcher is about to splice has start > end or a
\* negative start or end, stitching ends with an error and no consensus is
\* emitted for the draft.
C15_MalformedTrimAborts ==
    (pc \in {"done", "stitch_failed"} /\ \E k \in 1..Len(trims) : Malformed(trims[k]))
        => (pc = "stitch_failed" /\ written = <<>>)

(***************************************************************************)
(* decode_variants on the draft ACGTACGT: one sample over the whole draft  *)
(* without insertion columns, and a prediction that departs from the draft *)
(* in at most two columns.                                                 *)
(***************************************************************************)
ExampleDraft == <<"A", "C", "G", "T", "A", "C", "G", "T">>

ExampleSample == SampleOf(PileupColumns(0, Len(ExampleDraft), {}), 0, -1)

\* the same draft with an insertion column after position 3
ExampleSampleInserted == SampleOf(PileupColumns(0, Len(ExampleDraft), {3}), 0, -1)

\* the predicted classes: those of the draft ('*' on the insertion column),
\* with columns p and q set to c and d
ExampleClasses(sample, p, c, q, d) ==
    [j \in 1..NumColumns(sample) |->
        IF j - 1 = q THEN d
        ELSE IF j - 1 = p THEN c
        ELSE IF sample.positions_minor[j] = 0
          THEN symbol_lookup(ExampleDraft[sample.positions_major[j] + 1])
        ELSE 0]

InitVariantExample ==
    /\ pc = "vc_decode"
    /\ \E sample \in {ExampleSample, ExampleSampleInserted} :
          \E p \in 0..(NumColumns(sample) - 1), q \in 0..(NumColumns(sample) - 1) :
              \E c \in 0..(Len(label_scheme) - 1), d \in 0..(Len(label_scheme) - 1) :
                  vc = [draft |-> ExampleDraft,
                        vc_sample |->
                            [sample |-> sample,
                             logits |-> [j \in 1..NumColumns(sample) |->
                                            logits_row(ExampleClasses(sample, p, c, q, d)[j])]],
                        ambig_ref |-> FALSE, variants |-> <<>>]
    /\ samples = Idle /\ trims = Idle /\ stitched = Idle /\ written = Idle
    /\ surg = Idle /\ win = Idle /\ inf = Idle

NextVariantExample == DecodeVariants

SpecVariantExample == InitVariantExample /\ [][NextVariantExample]_vars

\* the prediction that has '*' at draft position 3 and the draft elsewhere
SingleBaseDeletion ==
    decode_bases_impl(<<vc.vc_sample.logits>>)[1].seq = [ExampleDraft EXCEPT ![3 + 1] = "*"]

\* C16: for draft ACGTACGT and a prediction with '*' at draft position 3 that
\* matches the draft elsewhere, exactly one variant is emitted, it is
\* {pos: 2, ref: "TA", alt: "A"}, and its alt is not empty.
C16_DeletionAnchored ==
    (pc \in {"vc_done", "vc_thrown"} /\ vc.draft = ExampleDraft /\ SingleBaseDeletion)
        => /\ pc = "vc_done"
           /\ Len(vc.variants) = 1
           /\ vc.variants[1].pos = 2
           /\ vc.variants[1].ref = <<"T", "A">>
           /\ vc.variants[1].alt = <<"A">>
           /\ vc.variants[1].alt # <<>>

(***************************************************************************)
(* The decoders of the repository on one sample's logits.  A logits entry  *)
(* stands for -10 * log10(1 - p) of its class.  Here inf holds the decoder *)
(* called, its logits and the ConsensusResult it returns.                  *)
(***************************************************************************)
MaxDecodeLen == 2   \* most columns of the decoded sample

Decoders == {"FeatureDecoder", "CountsFeatureDecoder", "ReadAlignmentFeatureDecoder"}

\* -10 * log10(1 - p) of the chosen class, below, at and above the two caps
PhredLevels == {0, 20, 40, 41, 70, 90}

\* ReadAlignmentFeatureDecoder::decode_bases
decode_bases_read_alignment(logits) ==
    [n \in 1..Len(logits) |->
        [seq |-> [j \in 1..Len(logits[n]) |-> At(label_scheme, argmax(logits[n][j]))],
         quals |-> [j \in 1..Len(logits[n]) |->
                       (clamp(At(logits[n][j], argmax(logits[n][j])), 0, 40) % 256) + 33]]]

\* decoder.decode_bases(logits): FeatureDecoder forwards to decode_bases_impl
decoder_decode_bases(decoder, logits) ==
    CASE decoder = "FeatureDecoder" -> decode_bases_impl(logits)
      [] decoder = "CountsFeatureDecoder" -> decode_bases(logits)
      [] OTHER -> decode_bases_read_alignment(logits)

DecodeLogits ==
    UNION { [1..n -> { [k \in 1..Len(label_scheme) |-> IF k = x[1] + 1 THEN x[2] ELSE 0] :
                         x \in (0..(Len(label_scheme) - 1)) \X PhredLevels }] :
            n \in 1..MaxDecodeLen }

InitDecode ==
    /\ pc = "dec_call"
    /\ \E decoder \in Decoders, logits \in DecodeLogits :
          inf = [decoder |-> decoder, logits |-> logits,
                 result |-> [seq |-> <<>>, quals |-> <<>>]]
    /\ samples = Idle /\ trims = Idle /\ stitched = Idle /\ written = Idle
    /\ surg = Idle /\ win = Idle /\ vc = Idle

\* new_results = decoder.decode_bases(output) for a batch of one sample
DecodeBases ==
    /\ pc = "dec_call"
    /\ inf' = [inf EXCEPT !.result = decoder_decode_bases(inf.decoder, <<inf.logits>>)[1]]
    /\ pc' = "dec_done"
    /\ UNCHANGED <<samples, trims, stitched, written, surg, win, vc>>

NextDecode == DecodeBases

SpecDecode == InitDecode /\ [][NextDecode]_vars

\* C17: every quality character a decoder produces is a Phred+33 character
\* with a Phred value in [0, 40], i.e. between '!' (33) and 'I' (73).
C17_QualityWithinCap ==
    pc = "dec_done" =>
        \A j \in 1..Len(inf.result.quals) :
            33 <= inf.result.quals[j] /\ inf.result.quals[j] <= 40 + 33

(***************************************************************************)
(* slice_sample and slice_vc_sample.  The body of slice_sample is not part *)
(* of the sources at hand: it is modelled from its declaration, from the   *)
(* expectations of PolishSampleTest.cpp and from its two callers.  The     *)
(* samples sliced are well formed (tensors defined, lengths equal).  Here  *)
(* vc holds the arguments of the call, its status and the sample returned. *)
(***************************************************************************)
\* the columns [idx_start, idx_end) of every per-column member
sliced(sample, idx_start, idx_end) ==
    [sample EXCEPT !.positions_major = Slice(sample.positions_major, idx_start, idx_end),
                   !.positions_minor = Slice(sample.positions_minor, idx_start, idx_end),
                   !.features = Slice(sample.features, idx_start, idx_end),
                   !.depth = Slice(sample.depth, idx_start, idx_end)]

\* faulty variant of slice_sample: an idx_end beyond the sample is cut down
\* to the sample's length instead of being rejected
slice_sample_end_clipped(sample, idx_start, idx_end) ==
    IF idx_start < 0 \/ idx_start >= NumColumns(sample) \/ idx_start >= idx_end
      THEN [status |-> "out_of_range", sample |-> EmptySample]
    ELSE [status |-> "ok",
          sample |-> sliced(sample, idx_start, Min(idx_end, NumColumns(sample)))]

slice_sample(sample, idx_start, idx_end) ==
    IF idx_start < 0 \/ idx_start >= NumColumns(sample) \/ idx_start >= idx_end
          \/ idx_end > NumColumns(sample)
      THEN [status |-> "out_of_range", sample |-> EmptySample]
    ELSE [status |-> "ok", sample |-> sliced(sample, idx_start, idx_end)]

\* status is "ok", "runtime_error" (logits of another length) or "out_of_range"
slice_vc_sample(vc_sample, idx_start, idx_end) ==
    LET num_columns == NumColumns(vc_sample.sample)
    IN  IF Len(vc_sample.logits) # num_columns
          THEN [status |-> "runtime_error", sample |-> EmptySample, logits |-> <<>>]
        ELSE IF idx_start < 0 \/ idx_start >= num_columns \/ idx_start >= idx_end
                  \/ idx_end > num_columns
          THEN [status |-> "out_of_range", sample |-> EmptySample, logits |-> <<>>]
        ELSE LET s == slice_sample(vc_sample.sample, idx_start, idx_end)
             IN  [status |-> s.status, sample |-> s.sample,
                  logits |-> IF s.status = "ok" THEN Slice(vc_sample.logits, idx_start, idx_end)
                             ELSE <<>>]

SliceIndices == (0 - 1)..(MaxVcLen + 1)

InitSlice ==
    /\ pc = "slice_call"
    /\ \E sample \in VcSamples, idx_start \in SliceIndices, idx_end \in SliceIndices :
          vc = [sample |-> sample, idx_start |-> idx_start, idx_end |-> idx_end,
                status |-> "none", result |-> EmptySample]
    /\ samples = Idle /\ trims = Idle /\ stitched = Idle /\ written = Idle
    /\ surg = Idle /\ win = Idle /\ inf = Idle

\* slice_sample(*s, t.start, t.end)
SliceSample ==
    /\ pc = "slice_call"
    /\ LET r == slice_sample(vc.sample, vc.idx_start, vc.idx_end)
       IN  /\ vc' = [vc EXCEPT !.status = r.status, !.result = r.sample]
           /\ pc' = IF r.status = "ok" THEN "slice_done" ELSE "slice_thrown"
    /\ UNCHANGED <<samples, trims, stitched, written, surg, win, inf>>

\* slice_vc_sample on the sample with logits of one row per column
SliceVcSample ==
    /\ pc = "slice_call"
    /\ LET logits == [j \in 1..NumColumns(vc.sample) |-> logits_row(0)]
           r == slice_vc_sample([sample |-> vc.sample, logits |-> logits],
                                vc.idx_start, vc.idx_end)
       IN  /\ vc' = [vc EXCEPT !.status = r.status, !.result = r.sample]
           /\ pc' = IF r.status = "ok" THEN "slice_vc_done" ELSE "slice_vc_thrown"
    /\ UNCHANGED <<samples, trims, stitched, written, surg, win, inf>>

NextSlice == SliceSample \/ SliceVcSample

SpecSlice == InitSlice /\ [][NextSlice]_vars

Sliced == {"slice_done", "slice_thrown", "slice_vc_done", "slice_vc_thrown"}

\* C18: for a sample with L columns, slice_sample(sample, a, b) returns the
\* columns a..b-1 of features, positions_major, positions_minor and depth with
\* the same seq_id whenever 0 <= a < b <= L, and throws std::out_of_range for
\* every other index pair.
C18_SliceReturnsColumns ==
    pc \in Sliced =>
        LET a == vc.idx_start
            b == vc.idx_end
            L == NumColumns(vc.sample)
        IN  IF 0 <= a /\ a < b /\ b <= L
              THEN /\ vc.status = "ok"
                   /\ vc.result.seq_id = vc.sample.seq_id
                   /\ NumColumns(vc.result) = b - a
                   /\ \A k \in 1..(b - a) :
                        /\ vc.result.features[k] = vc.sample.features[a + k]
                        /\ vc.result.positions_major[k] = vc.sample.positions_major[a + k]
                        /\ vc.result.positions_minor[k] = vc.sample.positions_minor[a + k]
                        /\ vc.result.depth[k] = vc.sample.depth[a + k]
                   /\ Len(vc.result.features) = b - a
                   /\ Len(vc.result.positions_minor) = b - a
                   /\ Len(vc.result.depth) = b - a
            ELSE vc.status = "out_of_range"

\* an inner slice of a sample was returned: columns are left out on both
\* sides of it and it holds an insertion column
C18_Witness ==
    /\ pc = "slice_done"
    /\ 0 < vc.idx_start
    /\ vc.idx_start < vc.idx_end
    /\ vc.idx_end < NumColumns(vc.sample)
    /\ 1 \in Range(vc.result.positions_minor)

(***************************************************************************)
(* Properties of relative_position on the neighbouring samples of a draft. *)
(***************************************************************************)
\* s1 starts first and neither range contains the other
StartsFirst(s1, s2) ==
    /\ PosLT(get_position(s1, 0), get_position(s2, 0))
    /\ PosLT(get_last_position(s1), get_last_position(s2))

\* the first position of s2 is one of the two successors of the last of s1
Succeeds(s1, s2) ==
    \/ get_position(s2, 0) = <<get_last_position(s1)[1] + 1, 0>>
    \/ get_position(s2, 0) = <<get_last_position(s1)[1], get_last_position(s1)[2] + 1>>

\* the neighbouring pairs trim_samples has compared
ComparedPairs ==
    IF pc \in Trimmed \cup {"trim_thrown"}
      THEN { k \in 1..(Len(samples) - 1) : StartsFirst(samples[k], samples[k + 1]) }
    ELSE {}

\* C21 as stated: FORWARD_OVERLAP exactly when the first position of s2 is
\* lexicographically less than the last position of s1, FORWARD_ABUTTED exactly
\* when it is a successor of it, FORWARD_GAPPED exactly when it lies beyond.
C21_RelativePositionStrict ==
    \A k \in ComparedPairs :
        LET s1 == samples[k]
            s2 == samples[k + 1]
            rel == relative_position(s1, s2)
        IN  /\ (rel = "FORWARD_OVERLAP")
                  <=> PosLT(get_position(s2, 0), get_last_position(s1))
            /\ (rel = "FORWARD_ABUTTED") <=> Succeeds(s1, s2)
            /\ (rel = "FORWARD_GAPPED")
                  <=> (PosLT(get_last_position(s1), get_position(s2, 0)) /\ ~Succeeds(s1, s2))

\* C21, amended: FORWARD_OVERLAP exactly when the first position of s2 is
\* lexicographically less than or equal to the last position of s1 (a shared
\* last column is an overlap); FORWARD_ABUTTED and FORWARD_GAPPED as stated.
C21_RelativePosition ==
    \A k \in ComparedPairs :
        LET s1 == samples[k]
            s2 == samples[k + 1]
            rel == relative_position(s1, s2)
        IN  /\ (rel = "FORWARD_OVERLAP")
                  <=> PosLE(get_position(s2, 0), get_last_position(s1))
            /\ (rel = "FORWARD_ABUTTED") <=> Succeeds(s1, s2)
            /\ (rel = "FORWARD_GAPPED")
                  <=> (PosLT(get_last_position(s1), get_position(s2, 0)) /\ ~Succeeds(s1, s2))

\* a compared pair in which s2 begins on the last column of s1
C21_Witness ==
    /\ 1 \in ComparedPairs
    /\ get_position(samples[2], 0) = get_last_position(samples[1])
    /\ relative_position(samples[1], samples[2]) = "FORWARD_OVERLAP"

(***************************************************************************)
(* merge_adjacent_samples on fragments of several drafts and regions, in   *)
(* any order, empty fragments among them.                                  *)
(***************************************************************************)
MaxFragments == 3   \* most fragments handed to merge_adjacent_samples
FragmentSpan == 3   \* the fragments lie within draft columns [0, FragmentSpan)
MaxFragmentLen == 2 \* most columns of a fragment

\* (seq_id, region_id) of a fragment
FragmentIds == {<<0, 0>>, <<0, 1>>, <<1, 0>>}

Fragments ==
    {EmptySample}
        \cup { SampleOf(PileupColumns(x[1], x[2], {}), x[3][1], x[3][2]) :
                 x \in { y \in (0..FragmentSpan) \X (0..FragmentSpan) \X FragmentIds :
                           y[1] < y[2] /\ y[2] - y[1] <= MaxFragmentLen } }

InitMerge ==
    /\ pc = "surg_merge"
    /\ \E n \in 0..MaxFragments :
          \E fragments \in [1..n -> Fragments] :
              surg = [cov |-> {}, ins |-> {}, window_len |-> 0, window_overlap |-> 0,
                      parallel_results |-> <<>>, after_disc |-> fragments,
                      after_merge |-> <<>>, local_samples |-> <<>>, results |-> <<>>]
    /\ samples = Idle /\ trims = Idle /\ stitched = Idle /\ written = Idle
    /\ win = Idle /\ vc = Idle /\ inf = Idle

NextMerge == MergeAdjacent

SpecMerge == InitMerge /\ [][NextMerge]_vars

\* fragment k of the non-empty fragments continues fragment k - 1
Continues(ne, k) ==
    /\ ne[k].seq_id = ne[k - 1].seq_id
    /\ ne[k].region_id = ne[k - 1].region_id
    /\ SampleStart(ne[k]) - SampleEnd(ne[k - 1]) = 0

\* the output sample that fragment k of the non-empty fragments belongs to
GroupOf(ne, k) == 1 + Cardinality({ j \in 2..k : ~Continues(ne, j) })

\* the members of output sample g, concatenated
GroupColumns(ne, g, field) ==
    Flatten([k \in 1..Len(ne) |-> IF GroupOf(ne, k) = g THEN ne[k][field] ELSE <<>>])

\* C22: merge_adjacent_samples concatenates consecutive non-empty fragments A
\* then B into one output sample if and only if their seq_id and region_id are
\* equal and B.start - A.end = 0; otherwise B begins a new output sample, and
\* empty fragments produce no output.
C22_MergeIffContiguous ==
    pc = "surg_split" =>
        LET ne == NonEmptySamples(surg.after_disc)
            out == surg.after_merge
        IN  /\ Len(out) = IF ne = <<>> THEN 0 ELSE GroupOf(ne, Len(ne))
            /\ \A k \in 1..Len(ne) :
                  /\ out[GroupOf(ne, k)].seq_id = ne[k].seq_id
                  /\ out[GroupOf(ne, k)].region_id = ne[k].region_id
            /\ \A g \in 1..Len(out) :
                  /\ out[g].positions_major = GroupColumns(ne, g, "positions_major")
                  /\ out[g].positions_minor = GroupColumns(ne, g, "positions_minor")
                  /\ out[g].features = GroupColumns(ne, g, "features")
                  /\ out[g].depth = GroupColumns(ne, g, "depth")

\* three fragments with an empty one in the middle: the outer two were joined
\* across it
C22_Witness ==
    /\ pc = "surg_split"
    /\ Len(surg.after_disc) = 3
    /\ surg.after_disc[2] = EmptySample
    /\ Len(surg.after_merge) = 1
    /\ NumColumns(surg.after_merge[1]) >= 3

(***************************************************************************)
(* Properties of split_samples on the merged samples of a region.          *)
(***************************************************************************)
\* the number of window starts 0, step, 2 * step, ... with start + chunk_len
\* <= sample_len
FullWindows(sample_len, chunk_len, step) == ((sample_len - chunk_len) \div step) + 1

\* the column ranges [from, to) of the chunks the sliding window gives for a
\* sample longer than chunk_len
ExpectedRanges(sample_len, chunk_len, step) ==
    LET n == FullWindows(sample_len, chunk_len, step)
        slid == [m \in 1..n |-> <<(m - 1) * step, (m - 1) * step + chunk_len>>]
    IN  IF slid[n][2] < sample_len
          THEN Append(slid, <<sample_len - chunk_len, sample_len>>)
        ELSE slid

\* what split_samples is to return for one sample
ExpectedChunks(s, chunk_len, chunk_overlap) ==
    IF NumColumns(s) <= chunk_len THEN <<s>>
    ELSE LET r == ExpectedRanges(NumColumns(s), chunk_len, chunk_len - chunk_overlap)
         IN  [m \in 1..Len(r) |->
                 [s EXCEPT !.positions_major = Slice(s.positions_major, r[m][1], r[m][2]),
                           !.positions_minor = Slice(s.positions_minor, r[m][1], r[m][2]),
                           !.features = Slice(s.features, r[m][1], r[m][2]),
                           !.depth = Slice(s.depth, r[m][1], r[m][2])]]

\* C23: for a sample longer than chunk_len and 0 <= chunk_overlap < chunk_len,
\* split_samples emits the chunks that start at 0, step, 2 * step, ... as long
\* as start + chunk_len <= sample_len, plus one final chunk
\* [sample_len - chunk_len, sample_len) when the last of these ends before
\* sample_len; every column of the input lies in an emitted chunk.
C23_SlidingWindowChunks ==
    (/\ pc \in {"surg_infer", "surg_split_thrown", "surg_split_hang"}
     /\ 0 <= surg.window_overlap
     /\ surg.window_overlap < surg.window_len)
        => /\ pc = "surg_infer"
           /\ surg.local_samples =
                 Flatten([k \in 1..Len(surg.after_merge) |->
                             ExpectedChunks(surg.after_merge[k], surg.window_len,
                                            surg.window_overlap)])
           /\ \A k \in 1..Len(surg.after_merge) :
                 \A j \in 0..(NumColumns(surg.after_merge[k]) - 1) :
                     \E c \in 1..Len(surg.local_samples) :
                         \E i \in 0..(NumColumns(surg.local_samples[c]) - 1) :
                             /\ get_position(surg.local_samples[c], i)
                                   = get_position(surg.after_merge[k], j)
                             /\ At(surg.local_samples[c].features, i)
                                   = At(surg.after_merge[k].features, j)

\* a sample that took three chunks of the sliding window with an overlap and
\* then the final chunk for its trailing columns
C23_Witness ==
    /\ pc = "surg_infer"
    /\ surg.window_overlap >= 1
    /\ \E k \in 1..Len(surg.after_merge) :
          LET len == NumColumns(surg.after_merge[k])
              step == surg.window_len - surg.window_overlap
          IN  /\ step >= 1
              /\ FullWindows(len, surg.window_len, step) >= 3
              /\ (len - surg.window_len) % step # 0

(***************************************************************************)
(* join_samples (variant_calling.cpp): the trimmed samples of one draft    *)
(* are cut at a column that agrees with the draft and regrouped, so that   *)
(* no variant spans two samples.  Here vc holds the argument list, the     *)
(* status of the call and the list it returns.                             *)
(***************************************************************************)
MaxJoinSamples == 3   \* most samples handed to join_samples

check_is_diff(base1, base2) == base1 # base2 \/ (base1 = "*" /\ base2 = "*")

\* merge_adjacent_samples_in_place appends the columns of the second sample
\* to the first
RECURSIVE merge_vc_loop(_, _, _)
merge_vc_loop(vc_samples, i, ret) ==
    IF i >= Size(vc_samples) THEN ret
    ELSE LET back == ret[Len(ret)]
             next == At(vc_samples, i)
         IN  IF SampleEnd(back.sample) = SampleStart(next.sample) + 1
               THEN merge_vc_loop(vc_samples, i + 1,
                        [ret EXCEPT ![Len(ret)] =
                            [sample |-> [back.sample EXCEPT
                                            !.positions_major = @ \o next.sample.positions_major,
                                            !.positions_minor = @ \o next.sample.positions_minor,
                                            !.features = @ \o next.sample.features,
                                            !.depth = @ \o next.sample.depth],
                             logits |-> back.logits \o next.logits]])
             ELSE merge_vc_loop(vc_samples, i + 1, Append(ret, next))

merge_vc_samples(vc_samples) ==
    IF vc_samples = <<>> THEN <<>> ELSE merge_vc_loop(vc_samples, 1, <<Head(vc_samples)>>)

\* the downward loop over j: the last column on minor 0 that is no diff, 0
\* when the loop finds none
last_non_var_start(sample, call_with_gaps, draft_with_gaps) ==
    Max0({ j \in 0..(NumColumns(sample) - 1) :
             /\ At(sample.positions_minor, j) = 0
             /\ ~check_is_diff(At(call_with_gaps, j), At(draft_with_gaps, j)) })

\* status is "ok", "runtime_error" (logits of another length) or
\* "out_of_range" (thrown by slice_vc_sample)
RECURSIVE join_loop(_, _, _, _, _)
join_loop(vc_samples, draft, i, queue, ret) ==
    IF i >= Size(vc_samples)
      THEN [status |-> "ok", ret |-> ret \o merge_vc_samples(queue)]
    ELSE
      LET vc_sample == At(vc_samples, i)
          sample == vc_sample.sample
          call_with_gaps == decode_bases_impl(<<vc_sample.logits>>)[1].seq
          draft_with_gaps == extract_draft_with_gaps(draft, sample.positions_major,
                                                     sample.positions_minor).seq
          count == Cardinality({ j \in 1..Len(call_with_gaps) :
                                   check_is_diff(call_with_gaps[j], draft_with_gaps[j]) })
          num_positions == NumColumns(sample)
          k == last_non_var_start(sample, call_with_gaps, draft_with_gaps)
          left_slice == slice_vc_sample(vc_sample, 0, k)
          right_slice == slice_vc_sample(vc_sample, k, num_positions)
          queued == IF k > 0
                      THEN Append(queue, [sample |-> left_slice.sample,
                                          logits |-> left_slice.logits])
                    ELSE queue
      IN  IF Len(vc_sample.logits) # NumColumns(sample)
            THEN [status |-> "runtime_error", ret |-> <<>>]
          ELSE IF count = Len(call_with_gaps)
            THEN join_loop(vc_samples, draft, i + 1, Append(queue, vc_sample), ret)
          ELSE IF left_slice.status # "ok"
            THEN [status |-> left_slice.status, ret |-> <<>>]
          ELSE IF right_slice.status # "ok"
            THEN [status |-> right_slice.status, ret |-> <<>>]
          ELSE join_loop(vc_samples, draft, i + 1,
                         <<[sample |-> right_slice.sample, logits |-> right_slice.logits]>>,
                         ret \o merge_vc_samples(queued))

join_samples(vc_samples, draft) == join_loop(vc_samples, draft, 0, <<>>, <<>>)

\* the pileup of the draft cut after the columns of cuts: consecutive
\* samples, each beginning on a draft column
RECURSIVE CutPileup(_, _, _)
CutPileup(cols, cuts, from) ==
    IF from >= Len(cols) THEN <<>>
    ELSE LET to == Min0({ c \in cuts \cup {Len(cols)} : c > from })
         IN  <<SampleOf(Slice(cols, from, to), 0, -1)>> \o CutPileup(cols, cuts, to)

\* the logits of a sample: on a column of varied the prediction departs from
\* the draft ('*' on a draft column, a base on an insertion column)
JoinLogits(sample, varied) ==
    [j \in 1..NumColumns(sample) |->
        LET pos == <<sample.positions_major[j], sample.positions_minor[j]>>
        IN  logits_row(IF pos[2] = 0
                         THEN (IF pos \in varied THEN 0
                               ELSE symbol_lookup(Draft[pos[1] + 1]))
                       ELSE (IF pos \in varied THEN 1 ELSE 0))]

InitJoin ==
    /\ pc = "join_call"
    /\ \E ins \in InsChoices :
          LET cols == PileupColumns(0, DraftLen, ins)
          IN  \E cuts \in { c \in SUBSET { j \in 1..(Len(cols) - 1) : cols[j + 1][2] = 0 } :
                              Cardinality(c) < MaxJoinSamples },
                 varied \in SUBSET Range(cols) :
                  vc = [draft |-> Draft,
                        vc_samples |->
                            [k \in 1..Len(CutPileup(cols, cuts, 0)) |->
                                [sample |-> CutPileup(cols, cuts, 0)[k],
                                 logits |-> JoinLogits(CutPileup(cols, cuts, 0)[k], varied)]],
                        status |-> "none", ret |-> <<>>]
    /\ samples = Idle /\ trims = Idle /\ stitched = Idle /\ written = Idle
    /\ surg = Idle /\ win = Idle /\ inf = Idle

JoinSamples ==
    /\ pc = "join_call"
    /\ LET r == join_samples(vc.vc_samples, vc.draft)
       IN  /\ vc' = [vc EXCEPT !.status = r.status, !.ret = r.ret]
           /\ pc' = IF r.status = "ok" THEN "join_done" ELSE "join_thrown"
    /\ UNCHANGED <<samples, trims, stitched, written, surg, win, inf>>

NextJoin == JoinSamples

SpecJoin == InitJoin /\ [][NextJoin]_vars

(***************************************************************************)
(* Properties of join_samples.                                             *)
(***************************************************************************)
Joined == {"join_done", "join_thrown"}

\* the prediction and the draft of input sample i, column by column
CallOf(i) == decode_bases_impl(<<vc.vc_samples[i].logits>>)[1].seq

DraftOf(i) ==
    extract_draft_with_gaps(vc.draft, vc.vc_samples[i].sample.positions_major,
                            vc.vc_samples[i].sample.positions_minor).seq

\* the columns of input sample i on minor 0 whose prediction equals the draft
Matching(i) ==
    { j \in 0..(NumColumns(vc.vc_samples[i].sample) - 1) :
        /\ At(vc.vc_samples[i].sample.positions_minor, j) = 0
        /\ At(CallOf(i), j) = At(DraftOf(i), j) }

\* the number of columns in the input samples before sample i
ColumnsBefore(i) == sum_seq([k \in 1..(i - 1) |-> NumColumns(vc.vc_samples[k].sample)])

\* all columns handed to join_samples, in order
JoinColumns ==
    PositionsOf([k \in 1..Len(vc.vc_samples) |-> vc.vc_samples[k].sample])

\* where the output ends a sample when each sample is cut after its last
\* matching column
CutsAfterMatch ==
    { ColumnsBefore(i) + Max0(Matching(i)) + 1 :
        i \in { k \in 1..Len(vc.vc_samples) : Matching(k) # {} } }

\* C24: a sample with a column that matches the draft is split at its last
\* column k on minor 0 with pred[k] = draft[k]: columns 0..k are flushed to the
\* output, merged with the deferred samples, and columns k + 1 onward are
\* queued and joined with the next sample.
C24_SplitAfterLastMatch ==
    (pc \in Joined /\ \E i \in 1..Len(vc.vc_samples) : Matching(i) # {})
        => /\ pc = "join_done"
           /\ PositionsOf([k \in 1..Len(vc.ret) |-> vc.ret[k].sample]) = JoinColumns
           /\ LET expected == CutPileup(JoinColumns, CutsAfterMatch, 0)
              IN  /\ Len(vc.ret) = Len(expected)
                  /\ \A k \in 1..Len(expected) :
                        /\ vc.ret[k].sample.positions_major = expected[k].positions_major
                        /\ vc.ret[k].sample.positions_minor = expected[k].positions_minor

\* C30: join_samples returns without throwing for every list of valid samples
\* (non-empty, first column on minor 0, as many logits rows as columns), a
\* sample whose last matching column is its first column included.
C30_JoinReturns ==
    pc \in Joined => pc = "join_done"

(***************************************************************************)
(* variant_columns on samples with insert runs of any length.  The sample  *)
(* starts on a draft column, as decode_variants has checked; the reference *)
(* has a base on minor 0 and '*' on an insert column.  Here vc holds the   *)
(* three arguments and the vector returned.                                *)
(***************************************************************************)
MaxColumns == 4   \* most columns of the sample

\* minor vectors: 0 first, then 0 again or one more than the column before
RECURSIVE MinorVectors(_)
MinorVectors(n) ==
    IF n = 1 THEN {<<0>>}
    ELSE UNION { {Append(m, 0), Append(m, m[n - 1] + 1)} : m \in MinorVectors(n - 1) }

InitVariantColumns ==
    /\ pc = "vcol_call"
    /\ \E n \in 1..MaxColumns :
          \E minor \in MinorVectors(n), prediction \in [1..n -> {"A", "C", "*"}] :
              vc = [minor |-> minor,
                    reference |-> [j \in 1..n |-> IF minor[j] = 0 THEN "A" ELSE "*"],
                    prediction |-> prediction, is_variant |-> <<>>]
    /\ samples = Idle /\ trims = Idle /\ stitched = Idle /\ written = Idle
    /\ surg = Idle /\ win = Idle /\ inf = Idle

VariantColumns ==
    /\ pc = "vcol_call"
    /\ LET r == variant_columns(vc.minor, vc.reference, vc.prediction)
       IN  /\ vc' = [vc EXCEPT !.is_variant = r.ret]
           /\ pc' = IF r.thrown THEN "vcol_thrown" ELSE "vcol_done"
    /\ UNCHANGED <<samples, trims, stitched, written, surg, win, inf>>

NextVariantColumns == VariantColumns

SpecVariantColumns == InitVariantColumns /\ [][NextVariantColumns]_vars

\* columns a..b (from 1) are a run of consecutive insert columns
InsertRun(a, b) ==
    /\ a <= b
    /\ \A j \in a..b : vc.minor[j] > 0
    /\ vc.minor[a - 1] = 0
    /\ (b = Len(vc.minor) \/ vc.minor[b + 1] = 0)

Differs(j) == vc.reference[j] # vc.prediction[j]

\* C25: variant_columns marks a column on minor 0 exactly when ref differs
\* from pred there, and marks every column of a run of consecutive insert
\* columns whenever a column of that run has ref different from pred.
C25_VariantColumnsMarked ==
    pc \in {"vcol_done", "vcol_thrown"} =>
        /\ pc = "vcol_done"
        /\ Len(vc.is_variant) = Len(vc.minor)
        /\ \A j \in 1..Len(vc.minor) :
              vc.minor[j] = 0 => (vc.is_variant[j] <=> Differs(j))
        /\ \A a \in 2..Len(vc.minor), b \in 2..Len(vc.minor) :
              (InsertRun(a, b) /\ \E j \in a..b : Differs(j))
                  => \A j \in a..b : vc.is_variant[j]

\* an insert run of three columns of which only the last differs was marked
\* as a whole, after a draft column that is no variant
C25_Witness ==
    /\ pc = "vcol_done"
    /\ vc.minor = <<0, 1, 2, 3>>
    /\ ~Differs(1) /\ ~Differs(2) /\ ~Differs(3) /\ Differs(4)
    /\ vc.is_variant = <<FALSE, TRUE, TRUE, TRUE>>

(***************************************************************************)
(* Properties of the alleles decode_variants emits for the example draft.  *)
(***************************************************************************)
ExamplePrediction == decode_bases_impl(<<vc.vc_sample.logits>>)[1].seq

ExampleReference ==
    extract_draft_with_gaps(vc.draft, vc.vc_sample.sample.positions_major,
                            vc.vc_sample.sample.positions_minor).seq

\* the runs [rs, re) of marked columns, as (rs, re, TRUE)
MarkedRuns ==
    { r \in Range(run_length_encode(variant_columns(vc.vc_sample.sample.positions_minor,
                                                    ExampleReference,
                                                    ExamplePrediction).ret)) : r[3] }

\* v is the variant of run r: anchored on the draft base when the run starts
\* on an insert column, the plain alleles otherwise
VariantOfRun(v, r) ==
    LET major == At(vc.vc_sample.sample.positions_major, r[1])
        on_insert == At(vc.vc_sample.sample.positions_minor, r[1]) > 0
        ref_seg == remove_gaps(Slice(ExampleReference, r[1], r[2]))
        alt_seg == remove_gaps(Slice(ExamplePrediction, r[1], r[2]))
    IN  /\ v.pos = major
        /\ v.ref = IF on_insert THEN <<vc.draft[major + 1]>> \o ref_seg ELSE ref_seg
        /\ v.alt = IF on_insert THEN <<vc.draft[major + 1]>> \o alt_seg ELSE alt_seg

\* the prediction that has a T on the insertion column after position 3 and
\* the draft elsewhere
SingleBaseInsertion ==
    /\ vc.vc_sample.sample = ExampleSampleInserted
    /\ ExamplePrediction = <<"A", "C", "G", "T", "T", "A", "C", "G", "T">>

\* C26: for every emitted variant whose run starts on an insert column, ref
\* and alt both begin with the draft base at major[rs] and pos is major[rs];
\* for a run that starts on minor 0 nothing is prepended.  For draft ACGTACGT
\* with a predicted T inserted after position 3 the single variant is
\* {pos: 3, ref: "T", alt: "TT"}.
C26_InsertRunAnchored ==
    (pc \in {"vc_done", "vc_thrown"} /\ vc.draft = ExampleDraft)
        => /\ pc = "vc_done"
           /\ \A k \in 1..Len(vc.variants) :
                 \E r \in MarkedRuns : VariantOfRun(vc.variants[k], r)
           /\ SingleBaseInsertion
                 => /\ Len(vc.variants) = 1
                    /\ vc.variants[1].pos = 3
                    /\ vc.variants[1].ref = <<"T">>
                    /\ vc.variants[1].alt = <<"T", "T">>

\* the variant of the claimed example was emitted
C26_Witness ==
    /\ pc = "vc_done"
    /\ SingleBaseInsertion
    /\ Len(vc.variants) = 1
    /\ vc.variants[1].alt = <<"T", "T">>

(***************************************************************************)
(* counts_to_features (counts_feature_encoder.cpp) for one datatype.  A    *)
(* row of counts has one entry per code of the pileup alphabet             *)
(* "acgtACGTdD": lower case are the reverse strand, 'd' and 'D' the        *)
(* deletions.  The pileup itself is computed outside the sources at hand:  *)
(* its rows count bases on every column and deletions on draft columns     *)
(* only (an insertion column is built from the reads that carry the        *)
(* insertion).  A feature is the pair (count, divisor) of the division     *)
(* that normalises it.  Here surg holds the arguments and the Sample       *)
(* members computed.                                                       *)
(***************************************************************************)
MaxPileupColumns == 3   \* most columns of the pileup

PILEUP_BASES_SIZE == 10
PILEUP_POS_DEL_REV == 8
PILEUP_POS_DEL_FWD == 9

\* pileup_counts_norm_indices for one datatype and num_qstrat = 1: the
\* feature indices of the group is_rev
feature_indices(is_rev) == IF is_rev THEN <<0, 1, 2, 3, 8>> ELSE <<4, 5, 6, 7, 9>>

\* counts.index({Slice(), inds}).sum(1) at row i (from 0)
dt_depth(counts, is_rev, i) ==
    sum_seq([k \in 1..Len(feature_indices(is_rev)) |->
                At(At(counts, i), feature_indices(is_rev)[k])])

\* major_ind_at_minor_inds of row i: the last row before i on minor 0, -1
\* when there is none
major_ind_at(minor, i) == IF { j \in 0..i : At(minor, j) = 0 } = {} THEN -1 ELSE Max0({ j \in 0..i : At(minor, j) = 0 })

\* a tensor index: -1 reads the last row
row_index(counts, i) == IF i < 0 THEN Size(counts) + i ELSE i

\* faulty variant of symmetric_indels: the deletion count of an insert column
\* is set to the depth of the anchor column
symmetric_indels_anchor_depth(counts, minor) ==
    [r \in 1..Len(counts) |->
        IF minor[r] = 0 THEN counts[r]
        ELSE [f \in 1..Len(counts[r]) |->
                 IF f - 1 \in {PILEUP_POS_DEL_REV, PILEUP_POS_DEL_FWD}
                   THEN dt_depth(counts, f - 1 = PILEUP_POS_DEL_REV,
                                 row_index(counts, major_ind_at(minor, r - 1)))
                 ELSE counts[r][f]]]

\* the `if (sym_indels)` block: counts after the index_put_ of both groups
symmetric_indels(counts, minor) ==
    [r \in 1..Len(counts) |->
        IF minor[r] = 0 THEN counts[r]
        ELSE [f \in 1..Len(counts[r]) |->
                 IF (f - 1) % PILEUP_BASES_SIZE \in {PILEUP_POS_DEL_REV, PILEUP_POS_DEL_FWD}
                   THEN LET is_rev == (f - 1) % PILEUP_BASES_SIZE = PILEUP_POS_DEL_REV
                        IN  dt_depth(counts, is_rev,
                                     row_index(counts, major_ind_at(minor, r - 1)))
                               - dt_depth(counts, is_rev, r - 1)
                 ELSE counts[r][f]]]

\* features, depth of the Sample returned
counts_to_features(counts, minor, sym_indels, normalise_type) ==
    LET sums == [r \in 1..Len(counts) |-> sum_seq(counts[r])]
        depth == [r \in 1..Len(counts) |->
                     IF minor[r] > 0 /\ major_ind_at(minor, r - 1) # -1
                       THEN At(sums, major_ind_at(minor, r - 1))
                     ELSE sums[r]]
        updated == IF sym_indels THEN symmetric_indels(counts, minor) ELSE counts
    IN  [features |-> [r \in 1..Len(counts) |->
                          [f \in 1..Len(updated[r]) |->
                              <<updated[r][f],
                                IF normalise_type \in {"TOTAL", "FWD_REV"}
                                  THEN Max(depth[r], 1) ELSE 1>>]],
         depth |-> depth]

\* a row of the pileup: bases of the two strands, and deletions
PileupRow(fwd, rev, del_fwd) ==
    [f \in 1..PILEUP_BASES_SIZE |->
        CASE f - 1 = 4 -> fwd
          [] f - 1 = 0 -> rev
          [] f - 1 = PILEUP_POS_DEL_FWD -> del_fwd
          [] OTHER -> 0]

BaseCounts == {<<0, 0>>, <<1, 0>>, <<1, 1>>, <<2, 1>>}

InitEncode ==
    /\ pc = "enc_call"
    /\ \E n \in 1..MaxPileupColumns :
          \E minor \in MinorVectors(n), bases \in [1..n -> BaseCounts],
             dels \in [1..n -> {0, 1}], sym_indels \in BOOLEAN,
             normalise_type \in {"TOTAL", "FWD_REV", "NONE"} :
              /\ \A r \in 1..n : minor[r] > 0 => dels[r] = 0
              /\ surg = [counts |-> [r \in 1..n |->
                                        PileupRow(bases[r][1], bases[r][2], dels[r])],
                         minor |-> minor, sym_indels |-> sym_indels,
                         normalise_type |-> normalise_type,
                         features |-> <<>>, depth |-> <<>>]
    /\ samples = Idle /\ trims = Idle /\ stitched = Idle /\ written = Idle
    /\ win = Idle /\ vc = Idle /\ inf = Idle

CountsToFeatures ==
    /\ pc = "enc_call"
    /\ LET r == counts_to_features(surg.counts, surg.minor, surg.sym_indels,
                                   surg.normalise_type)
       IN  surg' = [surg EXCEPT !.features = r.features, !.depth = r.depth]
    /\ pc' = "enc_done"
    /\ UNCHANGED <<samples, trims, stitched, written, win, vc, inf>>

NextEncode == CountsToFeatures

SpecEncode == InitEncode /\ [][NextEncode]_vars

\* the sum of the features of group is_rev at row r (from 1): the summed
\* counts over the common divisor of the row
GroupSum(r, is_rev) ==
    <<sum_seq([k \in 1..Len(feature_indices(is_rev)) |->
                  At(surg.features[r], feature_indices(is_rev)[k])[1]]),
      surg.features[r][1][2]>>

C28_SplitTerminates ==
    (/\ pc \in Merged \ {"surg_split"}
     /\ 0 <= surg.window_overlap
     /\ surg.window_overlap <= surg.window_len)
        => pc # "surg_split_hang"

\* C29: trim_samples returns without throwing for every list of non-empty
\* samples of one draft sorted ascending by start position, lists with two
\* samples on the same start or with a sample that contains its neighbour
\* included.
C29_TrimReturns ==
    (/\ pc # "trim"
     /\ \A k \in 1..Len(samples) : NumColumns(samples[k]) > 0
     /\ \A k \in 1..(Len(samples) - 1) : SampleStart(samples[k]) <= SampleStart(samples[k + 1]))
        => pc # "trim_thrown"
====
